---- MODULE Spec2Model ----
(***************************************************************************)
(* Verification model of the Quantus batched metric evaluation pipeline:   *)
(*   - PyTorchModel.get_random_layer_generator and eMPRT.__call__          *)
(*     (specification SpecRand),                                           *)
(*   - the text-classifier layer generators (specification SpecText),      *)
(*   - BatchedMetric.__call__ and its hooks (specification SpecBatch),     *)
(*   - RelativeInputStability.evaluate_batch with the prediction-change    *)
(*     guard (specification SpecRIS),                                      *)
(*   - AvgSensitivity.aggregate_instances (specification SpecAgg).         *)
(* Python objects that are shared by reference (torch modules) live in a   *)
(* heap of objects, so that aliasing and copying are explicit.             *)
(***************************************************************************)
EXTENDS Integers, Sequences, FiniteSets, TLC

VARIABLES
    \* ---- PyTorchModel / eMPRT (SpecRand) ----
    heap,            \* object id -> weights of that torch module tree
    has_reset,       \* named module -> whether it has reset_parameters
    layer_order,     \* eMPRT.layer_order
    ret_sens,        \* eMPRT.return_sensitivity_score
    nr_samples,      \* eMPRT.nr_samples
    n_inst,          \* number of instances of x_batch
    pc,              \* position of eMPRT.__call__
    n_layers,        \* local n_layers of eMPRT.__call__
    gen,             \* the generator object behind model_iterator
    l_ix,            \* loop index of the layer loop
    layer_name,      \* layer name bound by the layer loop
    a_ix,            \* index of the running per-instance / per-sample loop
    q_calls,         \* number of quality_func calls made by this call
    cur_scores,      \* scores collected by the running per-instance loop
    a_expl,          \* the explanation batch the running loop scores
    scores_rand,     \* self.scores_expl_model_randomised (insertion ordered)
    evaluation_scores,      \* self.evaluation_scores
    all_evaluation_scores,  \* self.all_evaluation_scores
    yields,          \* what the generator has yielded so far
    ret_sq,          \* eMPRT.return_sample_quality
    ret_agg,         \* eMPRT.return_aggregate
    np_rng,          \* numbers drawn from numpy's global generator since it was seeded
    a_batch_random,  \* local a_batch_random of eMPRT.__call__
    scores_expl_random,     \* self.scores_expl_random
    ret_val,         \* what the running call returned, if it has returned
    err,             \* the exception that ended the call, if one did
    call_no,         \* number of calls started on this eMPRT instance
    seen,            \* what the caller read from the instance after each returning call
    \* ---- text-classifier layer generators (SpecText) ----
    t_fw,            \* "torch": TorchTextClassifier, "tf": TensorFlowTextClassifier
    t_order,         \* the order argument
    t_has,           \* layer -> whether it passes the generator's filter
    t_w0,            \* the classifier's weights before the generator was made
    t_heap,          \* object id -> weights (self and model_copy)
    t_gen,           \* the generator object
    t_yields,        \* what the generator has yielded so far
    \* ---- BatchedMetric.__call__ (SpecBatch) ----
    b_cfg,           \* the metric's configuration: normalise, abs, return_aggregate
    b_all_results,   \* self.all_results
    b_returned,      \* the values the caller got back from its calls, in order
    b_ncalls,        \* instances submitted to this metric instance so far
    b_pc,            \* position of __call__
    b_last,          \* how the last call ended: "returned" or "raised"
    b_in,            \* the arguments of the running call: x_batch, y_batch, a_batch, batch_size
    b_data,          \* the dict general_preprocess returned
    b_i,             \* index of the running mini-batch
    b_cur,           \* x, y, a of the running mini-batch after batch_preprocess
    b_score,         \* what evaluate_batch returned for the running mini-batch
    b_scores,        \* scores_batch
    b_log,           \* collaborator calls made by the running batch_preprocess
    b_evals,         \* evaluate_batch invocations of the running call
    b_trace,         \* the steps of the running call so far, in order
    \* ---- RelativeInputStability.evaluate_batch (SpecRIS) ----
    r_cfg,           \* return_nan_when_prediction_changes, nr_samples, the model's kind
    r_x,             \* x_batch
    r_xps,           \* the perturbed batch of every round so far
    r_ris,           \* ris_batch, one row per round
    r_changed,       \* what changed_prediction_indices returned in every round so far
    r_index,         \* the loop variable index
    r_pc,            \* position of evaluate_batch
    r_result,        \* the returned array
    \* ---- AvgSensitivity.aggregate_instances (SpecAgg) ----
    g_scores,        \* the argument scores, one row per perturbation round
    g_pc,            \* position of aggregate_instances
    g_result,        \* the returned array
    \* ---- InverseEstimation.get_inverse_attributions (SpecInvAttr) ----
    v_method,        \* self.inverse_method
    v_a,             \* the last arrays: an argument, its inverse, the inverse of that
    \* ---- InverseEstimation.__init__ and evaluate_batch (SpecInverse) ----
    ie_args,         \* the constructor arguments: inverse_method and the two return flags
    ie_metric,       \* the wrapped metric metric_init: return_aggregate, abs, evaluation_scores
    ie_metric0,      \* the wrapped metric as it was passed in
    ie_pc,           \* position of the constructor / of evaluate_batch
    ie_err,          \* the exception that ended the constructor or the call
    ie_in,           \* the arguments of evaluate_batch: x_batch and a_batch
    ie_scores_ori,   \* self.scores_ori
    ie_scores_inv,   \* self.scores_inv
    ie_a_inv,        \* local a_batch_inv
    ie_mcalls,       \* calls made to the wrapped metric
    ie_result,       \* what evaluate_batch returned
    \* ---- asserts.assert_attributions / assert_segmentations (SpecAsserts) ----
    as_fn,           \* the assertion function that is called
    as_x,            \* np.shape(x_batch)
    as_arg,          \* the second argument: a_batch or s_batch
    as_out,          \* "pending", "passed" or the assertion that failed
    \* ---- TextClassificationMetric.__call__ (SpecTextMetric) ----
    tm_in,           \* the arguments: x_batch, y_batch, a_batch, batch_size
    tm_pc,           \* position of __call__
    tm_batches,      \* x_batch, y_batch, a_batch after batch_list
    tm_i,            \* the loop variable i
    tm_scores_batch, \* local scores_batch
    tm_result,       \* what __call__ returned or raised
    \* ---- BatchedPerturbationMetric.batch_preprocess / batch_postprocess (SpecTok) ----
    k_cfg,           \* NLP applicability, plain-text perturb_func, whether x_batch holds strings
    k_binding,       \* the value of model.tokenizer.batch_encode
    k_pc,            \* position of __call__
    k_nb,            \* number of mini-batches of the running call
    k_i,             \* index of the running mini-batch
    k_last,          \* how the last call ended
    k_calls,         \* calls started on this metric and model
    k_leaked,        \* whether a call on this model has raised while the binding was wrapped
    \* ---- NoiseGrad / NoiseGrad++ explanation functions (SpecNoise) ----
    ng_fn,           \* which explanation function runs
    ng_n,            \* the argument n: rounds of weight noise
    ng_m,            \* the argument m: rounds of input noise
    ng_w0,           \* the weights of the model before the call
    ng_w,            \* the weights of the model
    ng_og,           \* local original_weights / og_weights
    ng_pc,           \* position of the function
    ng_it,           \* the loop variable _n
    ng_jt,           \* the loop variable _m
    ng_writes,       \* the indices given to explanations_array.write, in order
    ng_out,          \* "running", "returned" or "raised"
    \* ---- TokenFlipping._eval_pruning / _eval_activation (SpecFlip) ----
    f_task,          \* "pruning" or "activation"
    f_y,             \* y_batch: the class index of every instance
    f_a,             \* the attribution scores a[1] of every instance
    f_ids,           \* input_ids (pruning) or masked_input_ids (activation)
    f_order,         \* mask_indices_all before it is transposed
    f_i,             \* the number of steps done
    f_logits,        \* the logits of the latest step
    f_scores,        \* the rows of scores filled so far
    f_pc             \* position of the function

varsRand == <<heap, has_reset, layer_order, ret_sens, nr_samples, n_inst, pc,
              n_layers, gen, l_ix, layer_name, a_ix, q_calls, cur_scores,
              a_expl, scores_rand, evaluation_scores, all_evaluation_scores,
              yields, ret_sq, ret_agg, np_rng, a_batch_random, scores_expl_random,
              ret_val, err, call_no, seen>>

\* The configuration of the call: fixed while it runs.
cfgRand == <<has_reset, layer_order, ret_sens, nr_samples, n_inst, ret_sq, ret_agg>>

varsText == <<t_fw, t_order, t_has, t_w0, t_heap, t_gen, t_yields>>

varsBatch == <<b_cfg, b_all_results, b_returned, b_ncalls, b_pc, b_last, b_in, b_data, b_i,
               b_cur, b_score, b_scores, b_log, b_evals, b_trace>>

varsRIS == <<r_cfg, r_x, r_xps, r_ris, r_changed, r_index, r_pc, r_result>>

varsAgg == <<g_scores, g_pc, g_result>>

varsInvAttr == <<v_method, v_a>>

varsInverse == <<ie_args, ie_metric, ie_metric0, ie_pc, ie_err, ie_in, ie_scores_ori,
                 ie_scores_inv, ie_a_inv, ie_mcalls, ie_result>>

varsAsserts == <<as_fn, as_x, as_arg, as_out>>

varsTextMetric == <<tm_in, tm_pc, tm_batches, tm_i, tm_scores_batch, tm_result>>

varsTok == <<k_cfg, k_binding, k_pc, k_nb, k_i, k_last, k_calls, k_leaked>>

varsNoise == <<ng_fn, ng_n, ng_m, ng_w0, ng_w, ng_og, ng_pc, ng_it, ng_jt, ng_writes, ng_out>>

varsFlip == <<f_task, f_y, f_a, f_ids, f_order, f_i, f_logits, f_scores, f_pc>>

vars == <<varsRand, varsText, varsBatch, varsRIS, varsAgg, varsInvAttr, varsInverse,
         varsAsserts,
         varsTextMetric,
         varsTok,
         varsNoise,
         varsFlip>>

\* What the actions of each specification leave alone.
frameRand == <<cfgRand, varsText, varsBatch, varsRIS, varsAgg, varsInvAttr, varsInverse,
    varsAsserts,
    varsTextMetric,
    varsTok,
    varsNoise,
    varsFlip>>
frameText == <<varsRand, varsBatch, varsRIS, varsAgg, varsInvAttr, varsInverse,
    varsAsserts,
    varsTextMetric,
    varsTok,
    varsNoise,
    varsFlip>>
frameBatch == <<varsRand, varsText, varsRIS, varsAgg, varsInvAttr, varsInverse,
    varsAsserts,
    varsTextMetric,
    varsTok,
    varsNoise,
    varsFlip>>
frameRIS == <<varsRand, varsText, varsBatch, varsAgg, varsInvAttr, varsInverse,
    varsAsserts,
    varsTextMetric,
    varsTok,
    varsNoise,
    varsFlip>>
frameAgg == <<varsRand, varsText, varsBatch, varsRIS, varsInvAttr, varsInverse,
    varsAsserts,
    varsTextMetric,
    varsTok,
    varsNoise,
    varsFlip>>
frameInvAttr == <<varsRand, varsText, varsBatch, varsRIS, varsAgg, varsInverse,
    varsAsserts,
    varsTextMetric,
    varsTok,
    varsNoise,
    varsFlip>>
frameInverse == <<varsRand, varsText, varsBatch, varsRIS, varsAgg, varsInvAttr,
    varsAsserts,
    varsTextMetric,
    varsTok,
    varsNoise,
    varsFlip>>
frameAsserts == <<varsRand, varsText, varsBatch, varsRIS, varsAgg,
    varsInvAttr, varsInverse,
    varsTextMetric,
    varsTok,
    varsNoise,
    varsFlip>>
frameTextMetric == <<varsRand, varsText, varsBatch, varsRIS, varsAgg,
    varsInvAttr, varsInverse, varsAsserts,
    varsTok,
    varsNoise,
    varsFlip>>
frameTok == <<varsRand, varsText, varsBatch, varsRIS, varsAgg,
    varsInvAttr, varsInverse, varsAsserts, varsTextMetric,
    varsNoise,
    varsFlip>>
frameNoise == <<varsRand, varsText, varsBatch, varsRIS, varsAgg,
    varsInvAttr, varsInverse, varsAsserts, varsTextMetric, varsTok,
    varsFlip>>
frameFlip == <<varsRand, varsText, varsBatch, varsRIS, varsAgg,
    varsInvAttr, varsInverse, varsAsserts, varsTextMetric, varsTok,
    varsNoise>>

-----------------------------------------------------------------------------
(* Bounds of the model.                                                    *)
MaxModules == 3
MaxInst == 2
MaxSamples == 2
MaxEvaluated == 3
MaxBatchSize == 2
MaxFeature == 2
MaxCalls == 2
MaxAttrLen == 3
MaxRounds == 3
MaxTokens == 2
MaxClass == 1

(* Program constants.                                                      *)
Seed == 42

-----------------------------------------------------------------------------
(* Generic helpers.                                                        *)
Range(s) == {s[i] : i \in DOMAIN s}

Reverse(s) == [i \in 1..Len(s) |-> s[Len(s) + 1 - i]]

RECURSIVE SumSeq(_)
SumSeq(s) == IF s = <<>> THEN 0 ELSE Head(s) + SumSeq(Tail(s))

-----------------------------------------------------------------------------
(* The torch model: named modules 1..MaxModules in definition order.  A    *)
(* module's parameters are one number; the trained value of module m is m  *)
(* and a re-initialisation under torch.manual_seed(s) gives s * 10 + m.    *)
Modules == 1..MaxModules
Caller == 1          \* the object the caller passed in (self.model)
CountCopy == 2       \* deep copy made by the generator that is only counted
IterCopy == 3        \* deep copy made by the generator that is iterated
Objs == {Caller, CountCopy, IterCopy}
NoObj == <<>>

TrainedWeights == [m \in Modules |-> m]

RandomInit(s, m) == s * 10 + m

\* named_modules() filtered by hasattr(l[1], "reset_parameters"), reversed
\* for order == "top_down".
GenModules(order, hr) ==
    LET modules == SelectSeq([m \in Modules |-> m], LAMBDA m : hr[m])
    IN  IF order = "top_down" THEN Reverse(modules) ELSE modules

\* deepcopy(self.model): the object the copy lives in.
AliasRef(src, fresh) == src
DeepCopyRef(src, fresh) == fresh

DeepCopy(h, src, fresh) == [h EXCEPT ![DeepCopyRef(src, fresh)] = h[src]]

\* module.load_state_dict(params): copies the current values of the tensors
\* params refers to (state_dict() returns references, not a snapshot).
LoadStateDict(h, dst, src) == [h EXCEPT ![dst] = h[src]]

\* torch.manual_seed(seed + 1); module[1].reset_parameters()
ResetParameters(h, obj, m) == [h EXCEPT ![obj][m] = RandomInit(Seed + 1, m)]

\* One iteration of the generator's for loop, up to its yield.
GenIterateNoRestore(h, rlm, orig, order, m) == ResetParameters(h, rlm, m)

GenIterate(h, rlm, orig, order, m) ==
    ResetParameters(IF order = "independent" THEN LoadStateDict(h, rlm, orig) ELSE h,
                    rlm, m)

\* The generator run to exhaustion: list(model.get_random_layer_generator(...)).
RECURSIVE GenExhaust(_, _, _, _, _)
GenExhaust(h, rlm, orig, order, mods) ==
    IF mods = <<>> THEN h
    ELSE GenExhaust(GenIterate(h, rlm, orig, order, Head(mods)), rlm, orig, order, Tail(mods))

\* The layers of object obj whose parameters differ from the trained ones.
Randomised(h, obj) == {m \in Modules : h[obj][m] # TrainedWeights[m]}

-----------------------------------------------------------------------------
(* Collaborators of eMPRT: explain_func and quality_func are deterministic *)
(* functions of what they are given.                                       *)
Explain(w, x) == SumSeq(w) + x
Quality(a) == 1 + (a % 3)

\* Python values whose type the code tests: a list, a dict, nothing.
ListValue(v) == [type |-> "list", val |-> v]
DictValue(v) == [type |-> "dict", val |-> v]
NoValue == [type |-> "none", val |-> <<>>]

\* np.random.rand after np.random.seed(seed): the k-th number of the stream.
NpRandom(seed, k) == (seed + 5 * k) % 7

InitGen == [state |-> "unstarted", rlm |-> 0, orig |-> 0, modules |-> <<>>, pos |-> 0]

\* The text-classifier generators are not in use.
IdleText ==
    /\ t_fw = "none"
    /\ t_order = "none"
    /\ t_has = <<>>
    /\ t_w0 = <<>>
    /\ t_heap = <<>>
    /\ t_gen = <<>>
    /\ t_yields = <<>>

\* No batched metric is in use.
IdleBatch ==
    /\ b_cfg = <<>>
    /\ b_all_results = <<>>
    /\ b_returned = <<>>
    /\ b_ncalls = 0
    /\ b_pc = "none"
    /\ b_last = "none"
    /\ b_in = <<>>
    /\ b_data = <<>>
    /\ b_i = 0
    /\ b_cur = <<>>
    /\ b_score = <<>>
    /\ b_scores = <<>>
    /\ b_log = <<>>
    /\ b_evals = 0
    /\ b_trace = <<>>

IdleRIS ==
    /\ r_cfg = <<>>
    /\ r_x = <<>>
    /\ r_xps = <<>>
    /\ r_ris = <<>>
    /\ r_changed = <<>>
    /\ r_index = 0
    /\ r_pc = "none"
    /\ r_result = <<>>

IdleAgg ==
    /\ g_scores = <<>>
    /\ g_pc = "none"
    /\ g_result = <<>>

IdleInvAttr ==
    /\ v_method = "none"
    /\ v_a = <<>>

IdleInverse ==
    /\ ie_args = <<>>
    /\ ie_metric = <<>>
    /\ ie_metric0 = <<>>
    /\ ie_pc = "none"
    /\ ie_err = "none"
    /\ ie_in = <<>>
    /\ ie_scores_ori = <<>>
    /\ ie_scores_inv = <<>>
    /\ ie_a_inv = <<>>
    /\ ie_mcalls = 0
    /\ ie_result = [type |-> "none", val |-> <<>>]

IdleAsserts ==
    /\ as_fn = "none"
    /\ as_x = <<>>
    /\ as_arg = <<>>
    /\ as_out = "none"

IdleTextMetric ==
    /\ tm_in = <<>>
    /\ tm_pc = "none"
    /\ tm_batches = <<>>
    /\ tm_i = 0
    /\ tm_scores_batch = <<>>
    /\ tm_result = [type |-> "none", val |-> <<>>]

IdleTok ==
    /\ k_cfg = <<>>
    /\ k_binding = <<>>
    /\ k_pc = "none"
    /\ k_nb = 0
    /\ k_i = 0
    /\ k_last = "none"
    /\ k_calls = 0
    /\ k_leaked = FALSE

IdleNoise ==
    /\ ng_fn = "none"
    /\ ng_n = 0
    /\ ng_m = 0
    /\ ng_w0 = <<>>
    /\ ng_w = <<>>
    /\ ng_og = <<>>
    /\ ng_pc = "none"
    /\ ng_it = 0
    /\ ng_jt = 0
    /\ ng_writes = <<>>
    /\ ng_out = "none"

IdleFlip ==
    /\ f_task = "none"
    /\ f_y = <<>>
    /\ f_a = <<>>
    /\ f_ids = <<>>
    /\ f_order = <<>>
    /\ f_i = 0
    /\ f_logits = <<>>
    /\ f_scores = <<>>
    /\ f_pc = "none"

InitRand ==
    /\ IdleText
    /\ IdleBatch
    /\ IdleRIS
    /\ IdleAgg
    /\ IdleInvAttr
    /\ IdleInverse
    /\ IdleAsserts
    /\ IdleTextMetric
    /\ IdleTok
    /\ IdleNoise
    /\ IdleFlip
    /\ heap = [o \in Objs |-> IF o = Caller THEN TrainedWeights ELSE NoObj]
    /\ has_reset \in [Modules -> BOOLEAN]
    /\ layer_order \in {"top_down", "bottom_up", "independent"}
    /\ ret_sens \in BOOLEAN
    /\ nr_samples \in 1..MaxSamples
    /\ n_inst \in 1..MaxInst
    /\ pc = "start"
    /\ n_layers = 0
    /\ gen = InitGen
    /\ l_ix = 0
    /\ layer_name = 0
    /\ a_ix = 0
    /\ q_calls = 0
    /\ cur_scores = <<>>
    /\ a_expl = <<>>
    /\ scores_rand = <<>>
    /\ evaluation_scores = ListValue(<<>>)
    /\ all_evaluation_scores = <<>>
    /\ yields = <<>>
    /\ ret_sq \in BOOLEAN
    /\ ret_agg \in BOOLEAN
    /\ np_rng = 0
    /\ a_batch_random = <<>>
    /\ scores_expl_random = <<>>
    /\ ret_val = NoValue
    /\ err = "none"
    /\ call_no = 0
    /\ seen = <<>>

-----------------------------------------------------------------------------
(* eMPRT.__call__, one action per step of its control flow.  A call of a   *)
(* collaborator (explain_func, quality_func) either returns or raises; an  *)
(* exception is not caught anywhere in __call__ and ends the call.         *)

\* Dictionary keys: the reserved key "orig" and the name of named module m.
OrigKey == <<"orig">>
LayerKey(m) == <<"layer", m>>

\* d[key] = value on an insertion-ordered dict kept as a sequence of entries.
DictSetFront(d, key, value) ==
    IF \E i \in DOMAIN d : d[i].key = key
    THEN [i \in DOMAIN d |-> IF d[i].key = key THEN [key |-> key, scores |-> value] ELSE d[i]]
    ELSE <<[key |-> key, scores |-> value]>> \o d

DictSet(d, key, value) ==
    IF \E i \in DOMAIN d : d[i].key = key
    THEN [i \in DOMAIN d |-> IF d[i].key = key THEN [key |-> key, scores |-> value] ELSE d[i]]
    ELSE Append(d, [key |-> key, scores |-> value])

\* evaluate_instance: abs of the attribution, then quality_func.
EvaluateInstance(a) == Quality(IF a < 0 THEN -a ELSE a)

\* Attributes and observations that only the end of a call writes.
resultsRand == <<evaluation_scores, all_evaluation_scores, seen>>

\* What a step after the baseline loop leaves alone.
drawnRand == <<np_rng, a_batch_random, scores_expl_random, ret_val, err, call_no>>

RaiseWith(e) ==
    /\ pc' = "raised"
    /\ err' = e
    /\ UNCHANGED <<heap, gen, n_layers, l_ix, layer_name, a_ix, cur_scores, a_expl,
                   scores_rand, yields, np_rng, a_batch_random, scores_expl_random,
                   ret_val, call_no>>
    /\ UNCHANGED resultsRand

\* An exception of a collaborator (explain_func, quality_func).
Raise == RaiseWith("collaborator")

\* A call begins: general_preprocess and the initialisation of the score
\* containers.  The locals of an earlier call are gone.
Preprocess ==
    /\ \/ pc = "start"
       \/ pc \in {"returned", "raised"} /\ call_no < MaxCalls
    /\ UNCHANGED frameRand
    /\ pc' = "count"
    /\ call_no' = call_no + 1
    /\ scores_rand' = <<>>
    /\ scores_expl_random' = [k \in 1..nr_samples |-> 0]
    /\ ret_val' = NoValue
    /\ err' = "none"
    /\ heap' = [o \in Objs |-> IF o = Caller THEN heap[Caller] ELSE NoObj]
    /\ gen' = InitGen
    /\ n_layers' = 0
    /\ l_ix' = 0
    /\ layer_name' = 0
    /\ a_ix' = 0
    /\ q_calls' = 0
    /\ cur_scores' = <<>>
    /\ a_expl' = <<>>
    /\ a_batch_random' = <<>>
    /\ yields' = <<>>
    /\ UNCHANGED np_rng
    /\ UNCHANGED resultsRand

\* n_layers = len(list(generator)); model_iterator = tqdm(generator,
\* total=n_layers); a_batch_random = np.random.rand(nr_samples, ...)
CountLayers ==
    /\ pc = "count"
    /\ UNCHANGED frameRand
    /\ LET mods == GenModules(layer_order, has_reset)
           rlm == DeepCopyRef(Caller, CountCopy)
       IN  /\ heap' = GenExhaust(DeepCopy(heap, Caller, CountCopy), rlm, Caller,
                                 layer_order, mods)
           /\ n_layers' = Len(mods)
    /\ gen' = InitGen
    /\ a_ix' = 0
    /\ a_batch_random' = [k \in 1..nr_samples |-> NpRandom(Seed, np_rng + k)]
    /\ np_rng' = np_rng + nr_samples
    /\ pc' = "baseline"
    /\ UNCHANGED <<l_ix, layer_name, q_calls, cur_scores, a_expl, scores_rand, yields,
                   scores_expl_random, ret_val, err, call_no>>
    /\ UNCHANGED resultsRand

\* The loop over a_batch_random: one quality_func call per sample.
BaselineScore ==
    /\ pc = "baseline"
    /\ UNCHANGED frameRand
    /\ \/ /\ a_ix < nr_samples
          /\ q_calls' = q_calls + 1
          /\ \/ /\ a_ix' = a_ix + 1
                /\ scores_expl_random' =
                      [scores_expl_random EXCEPT ![a_ix + 1] = Quality(a_batch_random[a_ix + 1])]
                /\ UNCHANGED <<pc, heap, gen, n_layers, l_ix, layer_name, cur_scores,
                               a_expl, scores_rand, yields, np_rng, a_batch_random,
                               ret_val, err, call_no>>
                /\ UNCHANGED resultsRand
             \/ Raise
       \/ /\ a_ix = nr_samples
          /\ pc' = "next"
          /\ l_ix' = 0
          /\ UNCHANGED <<heap, gen, n_layers, layer_name, a_ix, q_calls, cur_scores,
                         a_expl, scores_rand, yields>>
          /\ UNCHANGED drawnRand
          /\ UNCHANGED resultsRand

\* yield module[0], random_layer_model: the model object of the yielded pair.
YieldedCallerModel(g) == g.orig
YieldedModel(g) == g.rlm

\* The generator body from its start (or from its last yield) to its next
\* yield or its end.
GenStarted(g, h) ==
    IF g.state = "unstarted"
    THEN [state |-> "running", rlm |-> DeepCopyRef(Caller, IterCopy), orig |-> Caller,
          modules |-> GenModules(layer_order, has_reset), pos |-> 1]
    ELSE g

\* next(model_iterator) of the layer loop.
GenNext ==
    /\ pc = "next"
    /\ UNCHANGED frameRand
    /\ LET h0 == IF gen.state = "unstarted" THEN DeepCopy(heap, Caller, IterCopy) ELSE heap
           g == GenStarted(gen, heap)
       IN  IF g.pos > Len(g.modules)
           THEN /\ gen' = [g EXCEPT !.state = "exhausted"]
                /\ heap' = h0
                /\ pc' = "post"
                /\ UNCHANGED <<layer_name, yields>>
           ELSE LET m == g.modules[g.pos]
                    h1 == GenIterate(h0, g.rlm, g.orig, layer_order, m)
                IN  /\ heap' = h1
                    /\ gen' = [g EXCEPT !.state = "suspended", !.pos = g.pos + 1]
                    /\ layer_name' = m
                    /\ yields' = Append(yields, [name |-> m, model |-> YieldedModel(g),
                                                 rand |-> Randomised(h1, g.rlm)])
                    /\ pc' = IF l_ix = 0 THEN "orig_explain" ELSE "layer"
    /\ UNCHANGED <<n_layers, l_ix, a_ix, q_calls, cur_scores, a_expl, scores_rand>>
    /\ UNCHANGED drawnRand
    /\ UNCHANGED resultsRand

\* l_ix == 0: explain_func on the model the caller passed in.
ExplainOriginal ==
    /\ pc = "orig_explain"
    /\ UNCHANGED frameRand
    /\ \/ /\ a_expl' = [i \in 1..n_inst |-> Explain(heap[Caller], i)]
          /\ scores_rand' = DictSet(scores_rand, OrigKey, <<>>)
          /\ cur_scores' = <<>>
          /\ a_ix' = 0
          /\ pc' = "orig_score"
          /\ UNCHANGED <<heap, gen, n_layers, l_ix, layer_name, q_calls, yields>>
          /\ UNCHANGED drawnRand
          /\ UNCHANGED resultsRand
       \/ Raise /\ UNCHANGED q_calls

\* The loop over a_batch_original: scores appended to the "orig" entry.
ScoreOriginal ==
    /\ pc = "orig_score"
    /\ UNCHANGED frameRand
    /\ \/ /\ a_ix < n_inst
          /\ q_calls' = q_calls + 1
          /\ \/ /\ a_ix' = a_ix + 1
                /\ cur_scores' = Append(cur_scores, EvaluateInstance(a_expl[a_ix + 1]))
                /\ scores_rand' = DictSet(scores_rand, OrigKey, cur_scores')
                /\ UNCHANGED <<pc, heap, gen, n_layers, l_ix, layer_name, a_expl, yields>>
                /\ UNCHANGED drawnRand
                /\ UNCHANGED resultsRand
             \/ Raise
       \/ /\ a_ix = n_inst
          /\ pc' = "layer"
          /\ UNCHANGED <<heap, gen, n_layers, l_ix, layer_name, a_ix, q_calls,
                         cur_scores, a_expl, scores_rand, yields>>
          /\ UNCHANGED drawnRand
          /\ UNCHANGED resultsRand

\* The sensitivity-score skip, else explain_func on the yielded model.
LayerExplain ==
    /\ pc = "layer"
    /\ UNCHANGED frameRand
    /\ \/ /\ ret_sens /\ l_ix + 1 < n_layers
          /\ l_ix' = l_ix + 1
          /\ pc' = "next"
          /\ UNCHANGED <<heap, gen, n_layers, layer_name, a_ix, q_calls, cur_scores,
                         a_expl, scores_rand, yields>>
          /\ UNCHANGED drawnRand
          /\ UNCHANGED resultsRand
       \/ /\ ~(ret_sens /\ l_ix + 1 < n_layers)
          /\ \/ /\ a_expl' = [i \in 1..n_inst |-> Explain(heap[gen.rlm], i)]
                /\ cur_scores' = <<>>
                /\ a_ix' = 0
                /\ pc' = "rand_score"
                /\ UNCHANGED <<heap, gen, n_layers, l_ix, layer_name, q_calls,
                               scores_rand, yields>>
                /\ UNCHANGED drawnRand
                /\ UNCHANGED resultsRand
             \/ Raise /\ UNCHANGED q_calls

\* The loop over a_batch_perturbed, then the store under layer_name.
ScoreRandomised ==
    /\ pc = "rand_score"
    /\ UNCHANGED frameRand
    /\ \/ /\ a_ix < n_inst
          /\ q_calls' = q_calls + 1
          /\ \/ /\ a_ix' = a_ix + 1
                /\ cur_scores' = Append(cur_scores, EvaluateInstance(a_expl[a_ix + 1]))
                /\ UNCHANGED <<pc, heap, gen, n_layers, l_ix, layer_name, a_expl,
                               scores_rand, yields>>
                /\ UNCHANGED drawnRand
                /\ UNCHANGED resultsRand
             \/ Raise
       \/ /\ a_ix = n_inst
          /\ scores_rand' = DictSet(scores_rand, LayerKey(layer_name), cur_scores)
          /\ l_ix' = l_ix + 1
          /\ pc' = "next"
          /\ UNCHANGED <<heap, gen, n_layers, layer_name, a_ix, q_calls, cur_scores,
                         a_expl, yields>>
          /\ UNCHANGED drawnRand
          /\ UNCHANGED resultsRand

\* recompute_scores_per_sample on a dict d: for every sample the mean over
\* the layers of d, kept as <<sum, count>>.
RecomputeScoresPerSample(d) ==
    [sample \in 1..Len(d[1].scores) |->
        <<SumSeq([l \in DOMAIN d |-> d[l].scores[sample]]), Len(d)>>]

\* [b / a for a, b in zip(scores_orig, scores_rand)], a quotient kept as
\* <<numerator, denominator>>.
InverseRatio(scores_orig, scores_final) ==
    [i \in 1..Len(scores_orig) |-> <<scores_orig[i], scores_final[i]>>]
SensitivityRatio(scores_orig, scores_final) ==
    [i \in 1..Len(scores_orig) |-> <<scores_final[i], scores_orig[i]>>]

\* The condition of the assert under "if self.return_aggregate".
AggregateAlwaysAllowed(sample_quality) == TRUE
AggregateAllowed(sample_quality) == sample_quality

\* self.aggregate_func applied to the dict.
AggregateDict(d) == [agg |-> d]

\* What the call hands back: self.all_evaluation_scores.
ReturnValue(all_scores) == ListValue(all_scores)

\* Post-processing: return_sample_quality, return_sensitivity_score,
\* return_aggregate, the append to all_evaluation_scores and the return.
Finish ==
    /\ pc = "post"
    /\ UNCHANGED frameRand
    /\ UNCHANGED <<heap, gen, n_layers, l_ix, layer_name, a_ix, q_calls, cur_scores,
                   a_expl, yields, np_rng, a_batch_random, scores_expl_random, call_no>>
    /\ LET sq_fails == ret_sq /\ (evaluation_scores.type # "dict"
                                  \/ evaluation_scores.val = <<>>)
           es1 == IF ret_sq /\ ~sq_fails
                  THEN ListValue(RecomputeScoresPerSample(evaluation_scores.val))
                  ELSE evaluation_scores
           sens_fails == ret_sens /\ Len(scores_rand) # 2
           es2 == IF ret_sens /\ ~sens_fails
                  THEN ListValue(SensitivityRatio(scores_rand[1].scores,
                                                  scores_rand[2].scores))
                  ELSE es1
           agg_fails == ret_agg /\ ~AggregateAllowed(ret_sq)
           stored == IF ret_agg THEN <<AggregateDict(scores_rand)>> ELSE scores_rand
       IN  IF sq_fails
           THEN /\ pc' = "raised"
                /\ err' = "evaluation_scores is no dict"
                /\ UNCHANGED <<scores_rand, ret_val>>
                /\ UNCHANGED resultsRand
           ELSE IF sens_fails
           THEN /\ pc' = "raised"
                /\ err' = "not two score sets"
                /\ evaluation_scores' = es1
                /\ UNCHANGED <<scores_rand, ret_val, all_evaluation_scores, seen>>
           ELSE IF agg_fails
           THEN /\ pc' = "raised"
                /\ err' = "aggregate without sample quality"
                /\ evaluation_scores' = es2
                /\ UNCHANGED <<scores_rand, ret_val, all_evaluation_scores, seen>>
           ELSE /\ pc' = "returned"
                /\ err' = "none"
                /\ evaluation_scores' = es2
                /\ scores_rand' = stored
                /\ all_evaluation_scores' = Append(all_evaluation_scores, stored)
                /\ ret_val' = ReturnValue(all_evaluation_scores')
                /\ seen' = Append(seen, [random |-> scores_expl_random,
                                         randomised |-> stored])

NextRand ==
    \/ Preprocess
    \/ CountLayers
    \/ BaselineScore
    \/ GenNext
    \/ ExplainOriginal
    \/ ScoreOriginal
    \/ LayerExplain
    \/ ScoreRandomised
    \/ Finish

SpecRand == InitRand /\ [][NextRand]_vars

\* The randomisation experiment is not in use.
IdleRand ==
    /\ heap = <<>>
    /\ has_reset = <<>>
    /\ layer_order = "none"
    /\ ret_sens = FALSE
    /\ nr_samples = 0
    /\ n_inst = 0
    /\ pc = "idle"
    /\ n_layers = 0
    /\ gen = <<>>
    /\ l_ix = 0
    /\ layer_name = 0
    /\ a_ix = 0
    /\ q_calls = 0
    /\ cur_scores = <<>>
    /\ a_expl = <<>>
    /\ scores_rand = <<>>
    /\ evaluation_scores = <<>>
    /\ all_evaluation_scores = <<>>
    /\ yields = <<>>
    /\ ret_sq = FALSE
    /\ ret_agg = FALSE
    /\ np_rng = 0
    /\ a_batch_random = <<>>
    /\ scores_expl_random = <<>>
    /\ ret_val = <<>>
    /\ err = "none"
    /\ call_no = 0
    /\ seen = <<>>

-----------------------------------------------------------------------------
(* TorchTextClassifier / TensorFlowTextClassifier.get_random_layer_generator. *)
(* A layer's weights are an array of two numbers.                          *)
Clone == 2           \* the object self.clone() returns
TextObjs == {Caller, Clone}

\* np.random.seed(seed + 1); np.random.permutation(w) on an array of two
\* rows: the rows change places.
Permutation(w) == <<w[2], w[1]>>

\* The list comprehension of the torch generator.  Each element of
\* named_modules() is a (name, module) tuple; for a module that has
\* reset_parameters the filter goes on to evaluate layer.state_dict() on the
\* tuple itself, which raises AttributeError.
TorchModules(hr) ==
    IF \E m \in Modules : hr[m]
    THEN [raised |-> TRUE, list |-> <<>>]
    ELSE [raised |-> FALSE, list |-> SelectSeq([m \in Modules |-> m], LAMBDA m : hr[m])]

\* The layers the tf generator walks: those of model_copy with weights.
TfLayers(hr) ==
    [raised |-> FALSE, list |-> SelectSeq([m \in Modules |-> m], LAMBDA m : hr[m])]

\* The object whose layers the generator randomises: the torch generator
\* lists self.unwrap().named_modules(), the tf one model_copy.unwrap().
RandomisedObject(fw) == IF fw = "torch" THEN Caller ELSE Clone

\* What "model_copy.weights = original" writes: the torch original_parameters
\* are self.weights, references to the tensors of self; the tf
\* original_weights are a copy taken when the generator started.
OriginalWeights(fw, h, g) == IF fw = "torch" THEN h[Caller] ELSE g.orig

\* The randomisation of one layer.
RandomiseLayer(fw, w, m) ==
    IF fw = "torch" THEN <<RandomInit(Seed + 1, m), RandomInit(Seed + 1, m)>>
    ELSE Permutation(w)

\* One iteration of the generator's for loop, up to its yield.
TextGenIterate(fw, order, h, g, m) ==
    LET h1 == IF order = "independent"
              THEN [h EXCEPT ![Clone] = OriginalWeights(fw, h, g)]
              ELSE h
        obj == RandomisedObject(fw)
    IN  [h1 EXCEPT ![obj][m] = RandomiseLayer(fw, h1[obj][m], m)]

InitText ==
    /\ IdleRand
    /\ IdleBatch
    /\ IdleRIS
    /\ IdleAgg
    /\ IdleInvAttr
    /\ IdleInverse
    /\ IdleAsserts
    /\ IdleTextMetric
    /\ IdleTok
    /\ IdleNoise
    /\ IdleFlip
    /\ t_fw \in {"torch", "tf"}
    /\ t_order \in {"top_down", "bottom_up", "independent"}
    /\ t_has \in [Modules -> BOOLEAN]
    /\ t_w0 \in [Modules -> {<<1, 2>>, <<2, 1>>}]
    /\ t_heap = [o \in TextObjs |-> IF o = Caller THEN t_w0 ELSE NoObj]
    /\ t_gen = [state |-> "unstarted", orig |-> <<>>, modules |-> <<>>, pos |-> 0]
    /\ t_yields = <<>>

\* The generator body from its creation to its first yield, its end, or the
\* exception of its list comprehension.
TextGenStart ==
    /\ t_gen.state = "unstarted"
    /\ LET mods == IF t_fw = "torch" THEN TorchModules(t_has) ELSE TfLayers(t_has)
           h0 == [t_heap EXCEPT ![Clone] = t_heap[Caller]]
           g0 == [state |-> "running", orig |-> t_heap[Caller],
                  modules |-> IF t_order = "top_down" THEN Reverse(mods.list)
                              ELSE mods.list,
                  pos |-> 1]
       IN  IF mods.raised
           THEN /\ t_gen' = [g0 EXCEPT !.state = "raised"]
                /\ t_heap' = h0
                /\ UNCHANGED t_yields
           ELSE IF g0.modules = <<>>
           THEN /\ t_gen' = [g0 EXCEPT !.state = "exhausted"]
                /\ t_heap' = h0
                /\ UNCHANGED t_yields
           ELSE LET m == g0.modules[1]
                    h1 == TextGenIterate(t_fw, t_order, h0, g0, m)
                IN  /\ t_heap' = h1
                    /\ t_gen' = [g0 EXCEPT !.state = "suspended", !.pos = 2]
                    /\ t_yields' = Append(t_yields, [name |-> m, clone |-> h1[Clone]])
    /\ UNCHANGED <<t_fw, t_order, t_has, t_w0>>
    /\ UNCHANGED frameText

\* The generator body from a yield to the next yield or its end.
TextGenNext ==
    /\ t_gen.state = "suspended"
    /\ IF t_gen.pos > Len(t_gen.modules)
       THEN /\ t_gen' = [t_gen EXCEPT !.state = "exhausted"]
            /\ UNCHANGED <<t_heap, t_yields>>
       ELSE LET m == t_gen.modules[t_gen.pos]
                h1 == TextGenIterate(t_fw, t_order, t_heap, t_gen, m)
            IN  /\ t_heap' = h1
                /\ t_gen' = [t_gen EXCEPT !.pos = t_gen.pos + 1]
                /\ t_yields' = Append(t_yields, [name |-> m, clone |-> h1[Clone]])
    /\ UNCHANGED <<t_fw, t_order, t_has, t_w0>>
    /\ UNCHANGED frameText

NextText == TextGenStart \/ TextGenNext

SpecText == InitText /\ [][NextText]_vars

-----------------------------------------------------------------------------
(* BatchedMetric.__call__ with general_preprocess, batch_preprocess,       *)
(* explain_batch, evaluate_batch and batch_postprocess.  An instance of    *)
(* x_batch is a vector of two features; instance i is <<i, 0>>.            *)

\* Optional values: None and a present value.
None == [some |-> FALSE, val |-> <<>>]
Some(v) == [some |-> TRUE, val |-> v]

\* value_or_default(value, default_factory): the factory runs only for None.
ValueOrDefault(v, default) == IF v.some THEN v.val ELSE default

\* batch_inputs(flat_list, batch_size): consecutive chunks of batch_size, in
\* order, the last one shorter when the length is no multiple.
RECURSIVE BatchInputs(_, _)
BatchInputs(flat, batch_size) ==
    IF flat = <<>> THEN <<>>
    ELSE IF Len(flat) <= batch_size THEN <<flat>>
    ELSE <<SubSeq(flat, 1, batch_size)>>
         \o BatchInputs(SubSeq(flat, batch_size + 1, Len(flat)), batch_size)

\* map_optional(value, batch_fn)
MapOptionalBatch(v, batch_size) ==
    IF v.some THEN Some(BatchInputs(v.val, batch_size)) ELSE None

\* map_optional(data[key], itemgetter(i))
MapOptionalItem(v, i) == IF v.some THEN Some(v.val[i]) ELSE None

\* The classifier: logits of an instance, a function of its first feature.
Logits(x) == <<x[1] % 3, 1 + (x[1] \div 3)>>

\* np.argmax: the 0-based position of the first maximal entry.
ArgMax(v) ==
    (CHOOSE i \in DOMAIN v :
        /\ \A j \in DOMAIN v : v[j] <= v[i]
        /\ \A j \in DOMAIN v : j < i => v[j] < v[i]) - 1

\* model.predict(x_batch).argmax(axis=-1)
PredictLabels(xs) == [j \in DOMAIN xs |-> ArgMax(Logits(xs[j]))]

\* The collaborators explain_func and normalise_func: an attribution with
\* entries of both signs, and a shift that makes the smallest entry zero.
ExplainFunc(x, y) == <<y - x[1], x[1]>>
MinOf(a) == CHOOSE v \in Range(a) : \A w \in Range(a) : v <= w
NormaliseFunc(a) == [k \in DOMAIN a |-> a[k] - MinOf(a)]
AbsVec(a) == [k \in DOMAIN a |-> IF a[k] < 0 THEN -a[k] ELSE a[k]]

\* explain_batch: explain_func, then normalise_func if normalise, then abs.
ExplainBatchAbsFirst(cfg, xs, ys) ==
    [j \in DOMAIN xs |->
        LET e == ExplainFunc(xs[j], ys[j])
            a == IF cfg.abs THEN AbsVec(e) ELSE e
        IN  IF cfg.normalise THEN NormaliseFunc(a) ELSE a]

ExplainBatch(cfg, xs, ys) ==
    [j \in DOMAIN xs |->
        LET e == ExplainFunc(xs[j], ys[j])
            n == IF cfg.normalise THEN NormaliseFunc(e) ELSE e
        IN  IF cfg.abs THEN AbsVec(n) ELSE n]

\* assert_attributions(x_batch, a_batch) passes.
ShapeOf(batch) == <<Len(batch)>> \o (IF batch = <<>> THEN <<>> ELSE <<Len(batch[1])>>)
AllowedShapes(sh) ==
    {SubSeq(sh, 2 + dim, Len(sh)) : dim \in 0..(Len(sh) - 1)}
    \cup {SubSeq(sh, 2, 1 + dim) : dim \in 0..(Len(sh) - 1)}
Flat(batch) == UNION {Range(batch[i]) : i \in DOMAIN batch}
AssertAttributionsPasses(x_batch, a_batch) ==
    /\ Len(x_batch) = Len(a_batch)
    /\ Tail(ShapeOf(a_batch)) \in AllowedShapes(ShapeOf(x_batch))
    /\ ~(\A v \in Flat(a_batch) : v = 0)
    /\ ~(\A v \in Flat(a_batch) : v = 1)
    /\ Cardinality(Flat(a_batch)) > 1
    /\ ~(\A v \in Flat(a_batch) : v < 0)

\* evaluate_batch of a concrete metric: one score per instance of the
\* mini-batch, computed from that instance's input, label and attribution.
EvaluateBatchScores(xs, ys, as) == [j \in DOMAIN xs |-> <<xs[j], ys[j], as[j]>>]

\* aggregate_func(scores_batch)
AggregateFunc(scores) == [agg |-> scores]

\* The attribution vectors a caller may pass for every instance.
AttrChoices == {<<-2, 1>>, <<0, 0>>, <<1, 2, 3>>}

NoCall == [x |-> <<>>, y |-> None, a |-> None, batch_size |-> 0]

InitBatch ==
    /\ IdleRand
    /\ IdleText
    /\ IdleRIS
    /\ IdleAgg
    /\ IdleInvAttr
    /\ IdleInverse
    /\ IdleAsserts
    /\ IdleTextMetric
    /\ IdleTok
    /\ IdleNoise
    /\ IdleFlip
    /\ b_cfg \in [normalise : BOOLEAN, abs : BOOLEAN, return_aggregate : BOOLEAN]
    /\ b_all_results = <<>>
    /\ b_returned = <<>>
    /\ b_ncalls = 0
    /\ b_pc = "idle"
    /\ b_last = "none"
    /\ b_in = NoCall
    /\ b_data = <<>>
    /\ b_i = 0
    /\ b_cur = <<>>
    /\ b_score = <<>>
    /\ b_scores = <<>>
    /\ b_log = <<>>
    /\ b_evals = 0
    /\ b_trace = <<>>

\* A step of __call__: the hook or statement that runs and, for a step of
\* the loop, the 1-based index of its mini-batch (0 otherwise).
Step(name, i) == <<name, i>>

\* An exception leaves __call__: nothing is caught.
BatchRaise ==
    /\ b_pc' = "idle"
    /\ b_last' = "raised"
    /\ UNCHANGED <<b_cfg, b_all_results, b_returned, b_ncalls, b_in, b_data, b_i,
                   b_cur, b_score, b_scores, b_log, b_evals>>

\* __call__ up to its loop: general_preprocess on the arguments.
CallStart ==
    /\ b_pc = "idle"
    /\ \E n \in 1..(MaxEvaluated - b_ncalls), bs \in 1..MaxBatchSize, ylab \in {-1, 1},
          av \in AttrChoices \cup {<<>>} :
         LET x == [i \in 1..n |-> <<i, 0>>]
             y == IF ylab = -1 THEN None ELSE Some([i \in 1..n |-> ylab])
             a == IF av = <<>> THEN None ELSE Some([i \in 1..n |-> av])
         IN  /\ b_in' = [x |-> x, y |-> y, a |-> a, batch_size |-> bs]
             /\ b_data' = [x_batch |-> BatchInputs(x, bs),
                           y_batch |-> MapOptionalBatch(y, bs),
                           a_batch |-> MapOptionalBatch(a, bs)]
             /\ b_ncalls' = b_ncalls + n
    /\ b_i' = 1
    /\ b_scores' = <<>>
    /\ b_evals' = 0
    /\ b_log' = <<>>
    /\ b_cur' = <<>>
    /\ b_score' = <<>>
    /\ b_pc' = "pre"
    /\ b_last' = "running"
    /\ b_trace' = <<Step("general_preprocess", 0)>>
    /\ UNCHANGED <<b_cfg, b_all_results, b_returned>>
    /\ UNCHANGED frameBatch

\* batch_preprocess on mini-batch b_i.
BatchPreprocess ==
    /\ b_pc = "pre"
    /\ LET x == b_data.x_batch[b_i]
           y0 == MapOptionalItem(b_data.y_batch, b_i)
           a0 == MapOptionalItem(b_data.a_batch, b_i)
           y == ValueOrDefault(y0, PredictLabels(x))
           a == ValueOrDefault(a0, ExplainBatch(b_cfg, x, y))
           log == (IF y0.some THEN <<>> ELSE <<"predict">>)
                  \o (IF a0.some THEN <<>> ELSE <<"explain_func">>)
       IN  \/ /\ b_cur' = [x |-> x, y |-> y, a |-> a]
              /\ b_log' = log
              /\ b_pc' = "eval"
              /\ UNCHANGED <<b_cfg, b_all_results, b_returned, b_ncalls, b_last, b_in,
                             b_data, b_i, b_score, b_scores, b_evals>>
           \/ /\ ~a0.some           \* explain_func or normalise_func raises
              /\ BatchRaise
    /\ b_trace' = Append(b_trace, Step("batch_preprocess", b_i))
    /\ UNCHANGED frameBatch

\* evaluate_batch on mini-batch b_i; its perturb_func or explain_func may raise.
EvaluateBatch ==
    /\ b_pc = "eval"
    /\ b_evals' = b_evals + 1
    /\ b_trace' = Append(b_trace, Step("evaluate_batch", b_i))
    /\ \/ /\ b_score' = EvaluateBatchScores(b_cur.x, b_cur.y, b_cur.a)
          /\ b_pc' = "post"
          /\ UNCHANGED <<b_cfg, b_all_results, b_returned, b_ncalls, b_last, b_in,
                         b_data, b_i, b_cur, b_scores, b_log>>
       \/ /\ b_pc' = "idle"
          /\ b_last' = "raised"
          /\ UNCHANGED <<b_cfg, b_all_results, b_returned, b_ncalls, b_in, b_data, b_i,
                         b_cur, b_score, b_scores, b_log>>
    /\ UNCHANGED frameBatch

\* scores_batch.extend(score)
ExtendLast(scores, score) == Append(scores, score[Len(score)])
Extend(scores, score) == scores \o score

\* batch_postprocess (the identity) and scores_batch.extend(score).
BatchPostprocess ==
    /\ b_pc = "post"
    /\ b_scores' = Extend(b_scores, b_score)
    /\ b_i' = b_i + 1
    /\ b_pc' = IF b_i < Len(b_data.x_batch) THEN "pre" ELSE "finish"
    /\ b_trace' = Append(b_trace, Step("batch_postprocess", b_i))
    /\ UNCHANGED <<b_cfg, b_all_results, b_returned, b_ncalls, b_last, b_in, b_data,
                   b_cur, b_score, b_log, b_evals>>
    /\ UNCHANGED frameBatch

\* What __call__ returns and appends to all_results.
CallResult(cfg, scores) == IF cfg.return_aggregate THEN AggregateFunc(scores) ELSE scores

\* self.all_results.append(scores_batch)
OverwriteResults(all_results, result) == <<result>>
AppendResult(all_results, result) == Append(all_results, result)

AggregateBeforePostprocess(cfg) ==
    (IF cfg.return_aggregate THEN <<Step("aggregate_func", 0)>> ELSE <<>>)
    \o <<Step("custom_postprocess", 0), Step("append", 0), Step("return", 0)>>

\* the steps of __call__ after its loop
FinishSteps(cfg) ==
    <<Step("custom_postprocess", 0)>>
    \o (IF cfg.return_aggregate THEN <<Step("aggregate_func", 0)>> ELSE <<>>)
    \o <<Step("append", 0), Step("return", 0)>>

\* After the loop: custom_postprocess, the optional aggregation, the append
\* to all_results and the return.
CallFinish ==
    /\ b_pc = "finish"
    /\ b_trace' = b_trace \o FinishSteps(b_cfg)
    /\ LET result == CallResult(b_cfg, b_scores)
       IN  /\ b_all_results' = AppendResult(b_all_results, result)
           /\ b_returned' = Append(b_returned, result)
    /\ b_pc' = "idle"
    /\ b_last' = "returned"
    /\ UNCHANGED <<b_cfg, b_ncalls, b_in, b_data, b_i, b_cur, b_score, b_scores,
                   b_log, b_evals>>
    /\ UNCHANGED frameBatch

NextBatch ==
    \/ CallStart
    \/ BatchPreprocess
    \/ EvaluateBatch
    \/ BatchPostprocess
    \/ CallFinish

SpecBatch == InitBatch /\ [][NextBatch]_vars

-----------------------------------------------------------------------------
(* RelativeInputStability.evaluate_batch and                               *)
(* BatchedPerturbationMetric.changed_prediction_indices.  A float is a     *)
(* pair <<1, 0>> for NaN and <<0, v>> for the number v.                    *)

NaN == <<1, 0>>
Num(v) == <<0, v>>
IsNaN(f) == f[1] = 1

AbsInt(v) == IF v < 0 THEN -v ELSE v

\* model(x_batch, **kwargs) through safe_as_array: the logits as an array.
ModelCall(x) == Logits(x)

\* np.reshape(np.argwhere(flags), -1): the 0-based positions where flags
\* holds, in ascending order.
RECURSIVE ArgWhere(_, _)
ArgWhere(flags, from) ==
    IF from > Len(flags) THEN <<>>
    ELSE (IF flags[from] THEN <<from - 1>> ELSE <<>>) \o ArgWhere(flags, from + 1)

\* The logits changed_prediction_indices compares: model.predict for a
\* numeric model and for a plain-text perturbation, model(...) otherwise.
GuardLogits(kind, x) == IF kind = "text_latent" THEN ModelCall(x) ELSE Logits(x)

\* changed_prediction_indices, both overloads.
ChangedLogitIndices(flag, kind, x_batch, x_perturbed) ==
    IF ~flag THEN <<>>
    ELSE ArgWhere([i \in DOMAIN x_batch |->
                      GuardLogits(kind, x_batch[i]) # GuardLogits(kind, x_perturbed[i])], 1)

ChangedPredictionIndices(flag, kind, x_batch, x_perturbed) ==
    IF ~flag THEN <<>>
    ELSE LET og_labels == [i \in DOMAIN x_batch |-> ArgMax(GuardLogits(kind, x_batch[i]))]
             perturbed_labels ==
                 [i \in DOMAIN x_perturbed |-> ArgMax(GuardLogits(kind, x_perturbed[i]))]
         IN  ArgWhere([i \in DOMAIN x_batch |-> og_labels[i] # perturbed_labels[i]], 1)

\* The explanation of a perturbed instance, and the maximisation objective:
\* finite stand-ins for explain_batch and the quotient of norms.
ExplainPerturbed(x) == x[1] + 1
RisObjective(x, xs) ==
    [i \in DOMAIN x |->
        Num((4 * AbsInt(ExplainPerturbed(x[i]) - ExplainPerturbed(xs[i])))
            \div (AbsInt(x[i][1] - xs[i][1]) + 1))]

\* ris_batch[index, changed_prediction_indices] = np.nan
KeepScores(row, changed) == row
SetNaN(row, changed) ==
    [i \in DOMAIN row |-> IF (i - 1) \in Range(changed) THEN NaN ELSE row[i]]

\* np.max(ris_batch, axis=0): a column holding a NaN gives NaN.
MaxOfSet(S) == CHOOSE v \in S : \A w \in S : w <= v
NpMaxAxis0(rows, n) ==
    [i \in 1..n |->
        IF \E r \in DOMAIN rows : IsNaN(rows[r][i]) THEN NaN
        ELSE Num(MaxOfSet({rows[r][i][2] : r \in DOMAIN rows}))]

\* What perturb_func may add to the first feature of an instance.
Deltas == {0, 1}
Kinds == {"numeric", "text_plain", "text_latent"}

InitRIS ==
    /\ IdleRand
    /\ IdleText
    /\ IdleBatch
    /\ IdleAgg
    /\ IdleInvAttr
    /\ IdleInverse
    /\ IdleAsserts
    /\ IdleTextMetric
    /\ IdleTok
    /\ IdleNoise
    /\ IdleFlip
    /\ r_cfg \in [return_nan : BOOLEAN, nr_samples : 1..MaxSamples, kind : Kinds]
    /\ \E n \in 1..MaxInst : r_x \in [1..n -> {<<v, 0>> : v \in 0..MaxFeature}]
    /\ r_xps = <<>>
    /\ r_ris = [r \in 1..r_cfg.nr_samples |-> [i \in DOMAIN r_x |-> Num(0)]]
    /\ r_changed = <<>>
    /\ r_index = 0
    /\ r_pc = "loop"
    /\ r_result = <<>>

\* One iteration of the loop over range(nr_samples): perturb, explain,
\* objective, the row assignment and the NaN marking.
RisRound ==
    /\ r_pc = "loop"
    /\ r_index < r_cfg.nr_samples
    /\ \E d \in [DOMAIN r_x -> Deltas] :
         LET x_perturbed == [i \in DOMAIN r_x |-> <<r_x[i][1] + d[i], 0>>]
             ris == RisObjective(r_x, x_perturbed)
             changed == ChangedPredictionIndices(r_cfg.return_nan, r_cfg.kind,
                                                 r_x, x_perturbed)
             row == IF Len(changed) = 0 THEN ris ELSE SetNaN(ris, changed)
         IN  /\ r_xps' = Append(r_xps, x_perturbed)
             /\ r_changed' = Append(r_changed, changed)
             /\ r_ris' = [r_ris EXCEPT ![r_index + 1] = row]
    /\ r_index' = r_index + 1
    /\ UNCHANGED <<r_cfg, r_x, r_pc, r_result>>
    /\ UNCHANGED frameRIS

\* After the loop: result = np.max(ris_batch, axis=0); return result.
RisReturn ==
    /\ r_pc = "loop"
    /\ r_index = r_cfg.nr_samples
    /\ r_result' = NpMaxAxis0(r_ris, Len(r_x))
    /\ r_pc' = "returned"
    /\ UNCHANGED <<r_cfg, r_x, r_xps, r_ris, r_changed, r_index>>
    /\ UNCHANGED frameRIS

NextRIS ==
    \/ RisRound
    \/ RisReturn

SpecRIS == InitRIS /\ [][NextRIS]_vars

-----------------------------------------------------------------------------
(* AvgSensitivity.aggregate_instances.  A mean is a triple <<1, 0, 0>> for *)
(* NaN and <<0, s, c>> for the quotient s / c.                             *)

\* np.mean(scores, axis=0): a column holding a NaN gives NaN.
NpMeanAxis0(scores, n) ==
    [i \in 1..n |->
        IF \E r \in DOMAIN scores : IsNaN(scores[r][i]) THEN <<1, 0, 0>>
        ELSE <<0, SumSeq([r \in DOMAIN scores |-> scores[r][i][2]]), Len(scores)>>]

\* np.nanmean(scores, axis=0): the mean of the entries of a column that are
\* not NaN, and NaN for a column that holds nothing else.
NpNanMeanAxis0(scores, n) ==
    [i \in 1..n |->
        LET kept == {r \in DOMAIN scores : ~IsNaN(scores[r][i])}
        IN  IF kept = {} THEN <<1, 0, 0>>
            ELSE <<0,
                   SumSeq([r \in DOMAIN scores |->
                              IF r \in kept THEN scores[r][i][2] ELSE 0]),
                   Cardinality(kept)>>]

\* The round scores a sensitivity metric may pass.
ScoreValues == {NaN, Num(0), Num(1), Num(3)}

InitAgg ==
    /\ IdleRand
    /\ IdleText
    /\ IdleBatch
    /\ IdleRIS
    /\ IdleInvAttr
    /\ IdleInverse
    /\ IdleAsserts
    /\ IdleTextMetric
    /\ IdleTok
    /\ IdleNoise
    /\ IdleFlip
    /\ \E nr \in 1..MaxSamples, n \in 1..MaxInst :
         g_scores \in [1..nr -> [1..n -> ScoreValues]]
    /\ g_pc = "called"
    /\ g_result = <<>>

AggregateInstances ==
    /\ g_pc = "called"
    /\ g_result' = NpNanMeanAxis0(g_scores, Len(g_scores[1]))
    /\ g_pc' = "returned"
    /\ UNCHANGED g_scores
    /\ UNCHANGED frameAgg

NextAgg == AggregateInstances

SpecAgg == InitAgg /\ [][NextAgg]_vars

(***************************************************************************)
(* InverseEstimation.get_inverse_attributions.  A numpy array is its shape *)
(* and its values in C order, so that a reshape keeps the values and       *)
(* replaces the shape.  np.argsort may order equal values either way: the  *)
(* index array it returns is any permutation that sorts the row.           *)
(***************************************************************************)
NpArray(shape, data) == [shape |-> shape, data |-> data]

RECURSIVE Concat(_)
Concat(rows) == IF rows = <<>> THEN <<>> ELSE Head(rows) \o Concat(Tail(rows))

\* a_batch.reshape((shape_ori[0], -1)): one row of values per instance
Reshape2D(arr) ==
    LET n == arr.shape[1]
        w == Len(arr.data) \div n
    IN  [i \in 1..n |-> SubSeq(arr.data, (i - 1) * w + 1, i * w)]

\* a_batch_inv.reshape(shape_ori)
ReshapeBack(rows, shape_ori) == NpArray(shape_ori, Concat(rows))

\* the index arrays np.argsort can return for the positions todo of a row:
\* a position of a smallest value comes first
RECURSIVE ArgSortsOf(_, _)
ArgSortsOf(row, todo) ==
    IF todo = {} THEN {<<>>}
    ELSE UNION {{<<k>> \o rest : rest \in ArgSortsOf(row, todo \ {k})} :
                    k \in {m \in todo : \A o \in todo : row[m] <= row[o]}}

ArgSorts(row) == ArgSortsOf(row, 1..Len(row))

\* np.argsort(a_batch, axis=1): one index array per row
RECURSIVE ArgSortsAxis1(_)
ArgSortsAxis1(rows) ==
    IF rows = <<>> THEN {<<>>}
    ELSE {<<p>> \o rest : p \in ArgSorts(Head(rows)), rest \in ArgSortsAxis1(Tail(rows))}

\* indices[:, ::-1]
Reversed(s) == [j \in 1..Len(s) |-> s[Len(s) + 1 - j]]

PositionIn(indices, k) == CHOOSE j \in 1..Len(indices) : indices[j] = k

\* -np.array(a_batch), one row
SignFlipRow(row) == [k \in 1..Len(row) |-> 0 - row[k]]

ReverseRow(row, indices) == Reversed(row)

\* a_batch_inv[i, indices] = a_batch[i, indices[::-1]]: the position of the
\* j-th smallest value receives the j-th largest value
ValueSwapRow(row, indices) ==
    [k \in 1..Len(row) |-> row[Reversed(indices)[PositionIn(indices, k)]]]

GetInverseAttributions(method, a_batch, sorts) ==
    LET rows == Reshape2D(a_batch)
        inv  == IF method = "sign-flip"
                THEN [i \in 1..Len(rows) |-> SignFlipRow(rows[i])]
                ELSE [i \in 1..Len(rows) |-> ValueSwapRow(rows[i], sorts[i])]
    IN  ReshapeBack(inv, a_batch.shape)

InverseMethods == {"sign-flip", "value-swap"}

InvBatchSizes == {1, 2}

AttrValues == {-1, 0, 2}

\* the shape of one instance's attribution: l rows of one value
InstanceShapes(l) == {<<l, 1>>}

InitInvAttr ==
    /\ IdleRand
    /\ IdleText
    /\ IdleBatch
    /\ IdleRIS
    /\ IdleAgg
    /\ IdleInverse
    /\ IdleAsserts
    /\ IdleTextMetric
    /\ IdleTok
    /\ IdleNoise
    /\ IdleFlip
    /\ v_method \in InverseMethods
    /\ \E n \in InvBatchSizes, l \in 1..MaxAttrLen :
         \E shape \in InstanceShapes(l), data \in [1..(n * l) -> AttrValues] :
            v_a = <<NpArray(<<n>> \o shape, data)>>

\* the last two arrays of a sequence of arrays
LastTwo(arrays) == SubSeq(arrays, IF Len(arrays) > 2 THEN Len(arrays) - 1 ELSE 1, Len(arrays))

\* one call of get_inverse_attributions on the array obtained last
ApplyInverse ==
    /\ v_method # "none"
    /\ LET a_batch == v_a[Len(v_a)]
           rows    == Reshape2D(a_batch)
           sortings == IF v_method = "value-swap" THEN ArgSortsAxis1(rows) ELSE {<<>>}
       IN  \E a_batch_inv \in {GetInverseAttributions(v_method, a_batch, sorts) :
                                    sorts \in sortings} :
              v_a' = Append(LastTwo(v_a), a_batch_inv)
    /\ UNCHANGED v_method
    /\ UNCHANGED frameInvAttr

NextInvAttr == ApplyInverse

SpecInvAttr == InitInvAttr /\ [][NextInvAttr]_vars

(***************************************************************************)
(* InverseEstimation.__init__ and InverseEstimation.evaluate_batch.  The   *)
(* wrapped metric is an object with the attributes the code reads and      *)
(* writes; calling it gives one curve of scores per instance, or one curve *)
(* for the whole batch when the metric does not score per instance.  A     *)
(* quotient s / c is the pair <<s, c>>.                                    *)
(***************************************************************************)
FloatValue(v) == [type |-> "float", val |-> v]

AnyReturnFlags(mean_per_sample, auc_per_sample) == TRUE

\* assert not (self.return_mean_per_sample and self.return_auc_per_sample)
OnlyOneReturnFlag(mean_per_sample, auc_per_sample) ==
    ~(mean_per_sample /\ auc_per_sample)

KeepAggregate(metric) == metric

\* if self.metric_init.return_aggregate: self.metric_init.return_aggregate = False
ForceNoAggregate(metric) ==
    IF metric.return_aggregate THEN [metric EXCEPT !.return_aggregate = FALSE]
    ELSE metric

\* the score curve of one instance: the sum of its first s attributions at step s
MetricCurve(row) == [st \in 1..Len(row) |-> SumSeq(SubSeq(row, 1, st))]

\* self.metric_init(..., a_batch=a_batch, ...)
WrappedMetricCall(metric, a_batch) ==
    LET rows == Reshape2D(a_batch)
    IN  IF metric.per_instance
        THEN [i \in 1..Len(rows) |-> MetricCurve(rows[i])]
        ELSE <<MetricCurve(Concat(rows))>>

\* the wrapped metric called: the scores of the run are added to the score
\* accumulator of the metric, which is what the call returns.  A metric
\* either starts every run from an empty accumulator or never empties it.
WrappedMetricRun(metric, a_batch) ==
    LET start == IF metric.resets THEN <<>> ELSE metric.evaluation_scores
    IN  start \o WrappedMetricCall(metric, a_batch)

LeaveEvaluationScores(metric) == metric

\* self.metric_init.evaluation_scores = []
EmptyEvaluationScores(metric) == [metric EXCEPT !.evaluation_scores = <<>>]

\* np.array(self.scores_ori) - np.array(self.scores_inv)
ScoreDifference(scores_ori, scores_inv) ==
    [i \in 1..Len(scores_ori) |->
        [st \in 1..Len(scores_ori[i]) |-> scores_ori[i][st] - scores_inv[i][st]]]

\* np.mean(np.array(scores), axis=1)
GetMeanScore(scores) ==
    [i \in 1..Len(scores) |-> <<SumSeq(scores[i]), Len(scores[i])>>]

\* utils.calculate_auc: the trapezoid rule with unit step
CalculateAuc(curve) ==
    <<SumSeq([st \in 1..(Len(curve) - 1) |-> curve[st] + curve[st + 1]]), 2>>

\* np.mean([utils.calculate_auc(np.array(curve)) for curve in scores])
GetAucScore(scores) ==
    <<SumSeq([i \in 1..Len(scores) |-> CalculateAuc(scores[i])[1]]), 2 * Len(scores)>>

\* the reduction of inv_scores and inv_scores.tolist()
ReduceScores(args, inv_scores) ==
    IF args.return_mean_per_sample THEN ListValue(GetMeanScore(inv_scores))
    ELSE IF args.return_auc_per_sample THEN FloatValue(GetAucScore(inv_scores))
    ELSE ListValue(inv_scores)

\* the attribution rows of one instance that are evaluated
EvalRows == {<<-1, 2>>, <<2, 0>>, <<0, 0>>}

\* the a_batch arguments of evaluate_batch for a batch of n instances
EvalAttributions(n) ==
    {None} \cup {Some(ReshapeBack(rows, <<n, 2, 1>>)) : rows \in [1..n -> EvalRows]}

InitInverse ==
    /\ IdleRand
    /\ IdleText
    /\ IdleBatch
    /\ IdleRIS
    /\ IdleAgg
    /\ IdleInvAttr
    /\ IdleAsserts
    /\ IdleTextMetric
    /\ IdleTok
    /\ IdleNoise
    /\ IdleFlip
    /\ ie_args \in [inverse_method : InverseMethods \cup {"other"},
                    return_mean_per_sample : BOOLEAN,
                    return_auc_per_sample : BOOLEAN]
    /\ ie_metric0 \in [return_aggregate : BOOLEAN, abs : BOOLEAN,
                       per_instance : BOOLEAN, resets : BOOLEAN,
                       evaluation_scores : {<<>>}]
    /\ ie_metric = ie_metric0
    /\ ie_pc = "new"
    /\ ie_err = "none"
    /\ ie_in = <<>>
    /\ ie_scores_ori = <<>>
    /\ ie_scores_inv = <<>>
    /\ ie_a_inv = <<>>
    /\ ie_mcalls = 0
    /\ ie_result = NoValue

callInverse == <<ie_in, ie_scores_ori, ie_scores_inv, ie_a_inv, ie_mcalls, ie_result>>

\* InverseEstimation.__init__
Construct ==
    /\ ie_pc = "new"
    /\ IF ~OnlyOneReturnFlag(ie_args.return_mean_per_sample, ie_args.return_auc_per_sample)
       THEN /\ ie_pc' = "construct_raised"
            /\ ie_err' = "AssertionError: both return flags"
            /\ UNCHANGED ie_metric
       ELSE IF ie_args.inverse_method \notin InverseMethods
       THEN /\ ie_pc' = "construct_raised"
            /\ ie_err' = "ValueError: inverse_method"
            /\ UNCHANGED ie_metric
       ELSE /\ ie_metric' = ForceNoAggregate(ie_metric)
            /\ IF ie_metric.abs
               THEN /\ ie_pc' = "construct_raised"
                    /\ ie_err' = "AssertionError: abs"
               ELSE /\ ie_pc' = "constructed"
                    /\ UNCHANGED ie_err
    /\ UNCHANGED <<ie_args, ie_metric0, callInverse>>
    /\ UNCHANGED frameInverse

\* evaluate_batch up to the assertion on the number of scores.  A metric
\* that never empties its accumulator itself is followed through its first
\* scoring evaluate_batch only.
EvaluateOriginal ==
    /\ ie_pc \in {"constructed", "returned", "raised"}
    /\ ie_metric.resets \/ ie_metric.evaluation_scores = <<>>
    /\ \E n \in 1..MaxInst :
         \E a_batch \in EvalAttributions(n) :
            /\ ie_in' = [n |-> n, a_batch |-> a_batch]
            /\ IF ~a_batch.some
               THEN /\ ie_pc' = "raised"
                    /\ ie_err' = "AssertionError: a_batch"
                    /\ ie_scores_ori' = <<>>
                    /\ ie_mcalls' = 0
                    /\ UNCHANGED ie_metric
               ELSE LET scores == WrappedMetricRun(ie_metric, a_batch.val)
                    IN  /\ ie_scores_ori' = scores
                        /\ ie_mcalls' = 1
                        /\ ie_metric' = [ie_metric EXCEPT !.evaluation_scores = scores]
                        /\ IF Len(scores) # n
                           THEN /\ ie_pc' = "raised"
                                /\ ie_err' = "AssertionError: number of scores"
                           ELSE /\ ie_pc' = "scored_ori"
                                /\ ie_err' = "none"
    /\ ie_scores_inv' = <<>>
    /\ ie_a_inv' = <<>>
    /\ ie_result' = NoValue
    /\ UNCHANGED <<ie_args, ie_metric0>>
    /\ UNCHANGED frameInverse

\* evaluate_batch from the reset of the wrapped metric to the second scoring
InvertAndEvaluate ==
    /\ ie_pc = "scored_ori"
    /\ LET a_batch  == ie_in.a_batch.val
           sortings == IF ie_args.inverse_method = "value-swap"
                       THEN ArgSortsAxis1(Reshape2D(a_batch)) ELSE {<<>>}
       IN  \E a_batch_inv \in {GetInverseAttributions(ie_args.inverse_method, a_batch, sorts) :
                                    sorts \in sortings} :
              LET emptied == EmptyEvaluationScores(ie_metric)
                  scores  == WrappedMetricRun(emptied, a_batch_inv)
              IN  /\ ie_a_inv' = a_batch_inv
                  /\ ie_scores_inv' = scores
                  /\ ie_metric' = [emptied EXCEPT !.evaluation_scores = scores]
    /\ ie_mcalls' = ie_mcalls + 1
    /\ ie_pc' = "scored_inv"
    /\ UNCHANGED <<ie_args, ie_metric0, ie_err, ie_in, ie_scores_ori, ie_result>>
    /\ UNCHANGED frameInverse

\* evaluate_batch: the difference of the scores, its reduction and the return
ReturnScores ==
    /\ ie_pc = "scored_inv"
    /\ ie_result' = ReduceScores(ie_args, ScoreDifference(ie_scores_ori, ie_scores_inv))
    /\ ie_pc' = "returned"
    /\ UNCHANGED <<ie_args, ie_metric, ie_metric0, ie_err, ie_in, ie_scores_ori,
                   ie_scores_inv, ie_a_inv, ie_mcalls>>
    /\ UNCHANGED frameInverse

NextInverse ==
    \/ Construct
    \/ EvaluateOriginal
    \/ InvertAndEvaluate
    \/ ReturnScores

SpecInverse == InitInverse /\ [][NextInverse]_vars

(***************************************************************************)
(* asserts.assert_attributions and asserts.assert_segmentations.  The      *)
(* checked argument is an object with its Python type, its shape and its   *)
(* values in C order; x_batch is given by its shape, the only thing the    *)
(* assertions read from it.  The booleans of a mask are the numbers 0 and  *)
(* 1, as np.isin compares them.                                            *)
(***************************************************************************)
ArrayArg(type, shape, data) == [type |-> type, shape |-> shape, data |-> data]

RECURSIVE ShapeSize(_)
ShapeSize(shape) == IF shape = <<>> THEN 1 ELSE Head(shape) * ShapeSize(Tail(shape))

\* np.all(a_batch == v)
NpAllEqual(data, v) == \A k \in DOMAIN data : data[k] = v

NoneLessThanZero(data) == FALSE

\* np.all(a_batch < 0.0)
AllLessThanZero(data) == \A k \in DOMAIN data : data[k] < 0

\* assert_attributions: "passed", or the assertion that fails first
AssertAttributions(x_shape, a_batch) ==
    IF a_batch.type # "ndarray" THEN "type"
    ELSE IF x_shape[1] # a_batch.shape[1] THEN "number of samples"
    ELSE IF Tail(a_batch.shape) \notin AllowedShapes(x_shape) THEN "share dimensions"
    ELSE IF NpAllEqual(a_batch.data, 0) THEN "all zero"
    ELSE IF NpAllEqual(a_batch.data, 1) THEN "all one"
    ELSE IF ~(Cardinality(Range(a_batch.data)) > 1) THEN "uniform"
    ELSE IF AllLessThanZero(a_batch.data) THEN "all negative"
    ELSE "passed"

\* the coordinate along axis d of the k-th value of an array of this shape
Coordinate(shape, k, d) ==
    ((k - 1) \div ShapeSize(SubSeq(shape, d + 1, Len(shape)))) % shape[d]

\* np.nonzero(s_batch): a tuple with one array of coordinates per axis
NpNonzero(arr) ==
    LET hits == SelectSeq([k \in 1..Len(arr.data) |-> k], LAMBDA k : arr.data[k] # 0)
    IN  [d \in 1..Len(arr.shape) |->
            [h \in 1..Len(hits) |-> Coordinate(arr.shape, hits[h], d)]]

\* np.isin(s_batch.flatten(), values).all()
NpIsInAll(data, values) == \A k \in DOMAIN data : data[k] \in values

\* assert_segmentations: "passed", or the assertion that fails first
AssertSegmentations(x_shape, s_batch) ==
    IF s_batch.type # "ndarray" THEN "type"
    ELSE IF x_shape[1] # s_batch.shape[1] THEN "number of samples"
    ELSE IF Tail(s_batch.shape) \notin AllowedShapes(x_shape) THEN "share dimensions"
    ELSE IF ~(Len(NpNonzero(s_batch)) > 0) THEN "no non-zero elements"
    ELSE IF ~(NpIsInAll(s_batch.data, {0, 1}) \/ NpIsInAll(s_batch.data, {1, 0}))
         THEN "not 0/1"
    ELSE "passed"

\* the shapes of one instance of the checked argument
ArgShapes == {<<2, 1>>, <<2>>, <<1>>, <<>>, <<1, 2>>}

AttributionValues == {-2, -1, 0, 1}

SegmentationValues == {0, 1, 2}

InitAsserts ==
    /\ IdleRand
    /\ IdleText
    /\ IdleBatch
    /\ IdleRIS
    /\ IdleAgg
    /\ IdleInvAttr
    /\ IdleInverse
    /\ IdleTextMetric
    /\ IdleTok
    /\ IdleNoise
    /\ IdleFlip
    /\ as_fn \in {"assert_attributions", "assert_segmentations"}
    /\ \E n \in 1..MaxInst : as_x = <<n, 2, 1>>
    /\ \E m \in 1..MaxInst, sh \in ArgShapes, type \in {"ndarray", "list"} :
         \E data \in [1..ShapeSize(<<m>> \o sh) ->
                        IF as_fn = "assert_attributions"
                        THEN AttributionValues ELSE SegmentationValues] :
            as_arg = ArrayArg(type, <<m>> \o sh, data)
    /\ as_out = "pending"

\* one call of the assertion function
CallAssert ==
    /\ as_out = "pending"
    /\ as_out' = IF as_fn = "assert_attributions"
                 THEN AssertAttributions(as_x, as_arg)
                 ELSE AssertSegmentations(as_x, as_arg)
    /\ UNCHANGED <<as_fn, as_x, as_arg>>
    /\ UNCHANGED frameAsserts

NextAsserts == CallAssert

SpecAsserts == InitAsserts /\ [][NextAsserts]_vars

(***************************************************************************)
(* TextClassificationMetric.__call__.  A text is a number; the classifier, *)
(* the explanation function and the abstract evaluate_batch are            *)
(* deterministic functions of what they are given.  np.reshape of a list   *)
(* of arrays of different lengths depends on the numpy release: it raises  *)
(* ValueError, or it gives an array of objects, one per listed array.      *)
(***************************************************************************)
\* model.predict(x_batch).argmax(axis=-1)
TextPredict(xs) == [j \in DOMAIN xs |-> xs[j] % 2]

\* explain_batch with normalise and abs off
TextExplain(xs, ys) == [j \in DOMAIN xs |-> <<xs[j], ys[j]>>]

\* TextClassificationMetric.batch_preprocess
TextBatchPreprocess(x, y, a) ==
    LET y_batch == ValueOrDefault(y, TextPredict(x))
        a_batch == ValueOrDefault(a, TextExplain(x, y_batch))
    IN  [x |-> x, y |-> y_batch, a |-> a_batch]

\* evaluate_batch of a concrete metric: one score per text of the mini-batch
TextEvaluateBatch(x, y, a) == [j \in DOMAIN x |-> 100 * x[j] + 10 * y[j] + a[j][2]]

\* TextClassificationMetric.batch_postprocess
TextBatchPostprocess(score) == score

\* the results np.reshape(scores_batch, -1) can have for a ragged scores_batch
RaggedOutcomes(scores_batch) ==
    {[type |-> "raised", val |-> "ValueError"],
     [type |-> "object array", val |-> scores_batch]}

\* np.reshape(scores_batch, -1): every result it can have
NpReshapeFlat(scores_batch) ==
    IF \A j, k \in DOMAIN scores_batch : Len(scores_batch[j]) = Len(scores_batch[k])
    THEN {[type |-> "array", val |-> Concat(scores_batch)]}
    ELSE RaggedOutcomes(scores_batch)

\* the texts of x_batch: text g is the number g
Texts(n) == [g \in 1..n |-> g]

InitTextMetric ==
    /\ IdleRand
    /\ IdleText
    /\ IdleBatch
    /\ IdleRIS
    /\ IdleAgg
    /\ IdleInvAttr
    /\ IdleInverse
    /\ IdleAsserts
    /\ IdleTok
    /\ IdleNoise
    /\ IdleFlip
    /\ \E n \in 1..MaxEvaluated, bs \in 1..MaxBatchSize :
         \E y \in {None} \cup {Some(ys) : ys \in [1..n -> {0, 1}]},
            a \in {None, Some([g \in 1..n |-> <<g, 2>>])} :
            tm_in = [x |-> Texts(n), y |-> y, a |-> a, batch_size |-> bs]
    /\ tm_pc = "start"
    /\ tm_batches = <<>>
    /\ tm_i = 0
    /\ tm_scores_batch = <<>>
    /\ tm_result = NoValue

\* __call__ up to the loop: batch_list of x_batch, y_batch and a_batch
TextMetricStart ==
    /\ tm_pc = "start"
    /\ tm_batches' = [x |-> BatchInputs(tm_in.x, tm_in.batch_size),
                      y |-> MapOptionalBatch(tm_in.y, tm_in.batch_size),
                      a |-> MapOptionalBatch(tm_in.a, tm_in.batch_size)]
    /\ tm_scores_batch' = <<>>
    /\ tm_i' = 0
    /\ tm_pc' = "loop"
    /\ UNCHANGED <<tm_in, tm_result>>
    /\ UNCHANGED frameTextMetric

\* one iteration of the loop over the mini-batches
TextMetricBatch ==
    /\ tm_pc = "loop"
    /\ tm_i < Len(tm_batches.x)
    /\ LET i     == tm_i + 1
           y     == MapOptionalItem(tm_batches.y, i)
           a     == MapOptionalItem(tm_batches.a, i)
           pre   == TextBatchPreprocess(tm_batches.x[i], y, a)
           score == TextBatchPostprocess(TextEvaluateBatch(pre.x, pre.y, pre.a))
       IN  tm_scores_batch' = Append(tm_scores_batch, score)
    /\ tm_i' = tm_i + 1
    /\ UNCHANGED <<tm_in, tm_pc, tm_batches, tm_result>>
    /\ UNCHANGED frameTextMetric

\* return np.reshape(scores_batch, -1)
TextMetricReturn ==
    /\ tm_pc = "loop"
    /\ tm_i = Len(tm_batches.x)
    /\ \E out \in NpReshapeFlat(tm_scores_batch) :
          /\ tm_result' = out
          /\ tm_pc' = IF out.type = "raised" THEN "raised" ELSE "returned"
    /\ UNCHANGED <<tm_in, tm_batches, tm_i, tm_scores_batch>>
    /\ UNCHANGED frameTextMetric

NextTextMetric ==
    \/ TextMetricStart
    \/ TextMetricBatch
    \/ TextMetricReturn

SpecTextMetric == InitTextMetric /\ [][NextTextMetric]_vars

(***************************************************************************)
(* BatchedPerturbationMetric.batch_preprocess and batch_postprocess inside *)
(* BatchedMetric.__call__: the binding of model.tokenizer.batch_encode.  A *)
(* callable is the tokenizer's method or a functools.partial object with   *)
(* its attributes func and keywords.                                       *)
(***************************************************************************)
OriginalBatchEncode == [kind |-> "method", func |-> <<>>, keywords |-> {}]

PartialNested(func, keywords) ==
    [kind |-> "partial", func |-> func, keywords |-> keywords]

\* functools.partial(func, **keywords): a partial of a partial is built on
\* the inner partial's func with the keywords of both
Partial(func, keywords) ==
    IF func.kind = "partial"
    THEN [kind |-> "partial", func |-> func.func, keywords |-> func.keywords \cup keywords]
    ELSE [kind |-> "partial", func |-> func, keywords |-> keywords]

\* whether callable.func exists; a method has no attribute func
HasFunc(callable) == callable.kind = "partial"

\* the number of partial objects around the tokenizer's method
RECURSIVE WrapDepth(_)
WrapDepth(callable) ==
    IF callable.kind = "method" THEN 0 ELSE 1 + WrapDepth(callable.func)

\* whether batch_preprocess takes the plain-text branch
RebindsInPreprocess(cfg) == cfg.nlp /\ cfg.plain_text

\* isinstance(x_batch[0], str) for what batch_preprocess returned: the
\* plain-text branch returns decoded strings
IsStrBatch(cfg) == RebindsInPreprocess(cfg) \/ cfg.str_input

\* whether batch_postprocess reads batch_encode.func
UnbindsInPostprocess(cfg) == IsStrBatch(cfg) /\ cfg.plain_text

InitTok ==
    /\ IdleRand
    /\ IdleText
    /\ IdleBatch
    /\ IdleRIS
    /\ IdleAgg
    /\ IdleInvAttr
    /\ IdleInverse
    /\ IdleAsserts
    /\ IdleTextMetric
    /\ IdleNoise
    /\ IdleFlip
    /\ k_cfg \in [nlp : BOOLEAN, plain_text : BOOLEAN, str_input : BOOLEAN]
    /\ k_binding = OriginalBatchEncode
    /\ k_pc = "idle"
    /\ k_nb = 0
    /\ k_i = 0
    /\ k_last = "none"
    /\ k_calls = 0
    /\ k_leaked = FALSE

\* an exception leaves __call__: nothing is caught
TokRaise ==
    /\ k_pc' = "idle"
    /\ k_last' = "raised"
    /\ UNCHANGED <<k_cfg, k_nb, k_i, k_calls>>

\* __call__ up to its loop
TokCallStart ==
    /\ k_pc = "idle"
    /\ k_calls < MaxCalls
    /\ \E n \in 1..MaxEvaluated, bs \in 1..MaxBatchSize :
          k_nb' = Len(BatchInputs([g \in 1..n |-> g], bs))
    /\ k_calls' = k_calls + 1
    /\ k_i' = 1
    /\ k_pc' = "pre"
    /\ k_last' = "running"
    /\ UNCHANGED <<k_cfg, k_binding, k_leaked>>
    /\ UNCHANGED frameTok

\* batch_preprocess on mini-batch k_i: the rebinding, then the base class's
\* batch_preprocess, whose predict or explain_func may raise
TokBatchPreprocess ==
    /\ k_pc = "pre"
    /\ k_binding' = IF RebindsInPreprocess(k_cfg)
                    THEN Partial(k_binding, {"add_special_tokens=False"})
                    ELSE k_binding
    /\ \/ /\ k_pc' = "eval"
          /\ UNCHANGED <<k_cfg, k_nb, k_i, k_last, k_calls, k_leaked>>
       \/ /\ TokRaise
          /\ k_leaked' = (k_leaked \/ HasFunc(k_binding'))
    /\ UNCHANGED frameTok

\* evaluate_batch on mini-batch k_i: it returns or raises
TokEvaluateBatch ==
    /\ k_pc = "eval"
    /\ \/ /\ k_pc' = "post"
          /\ UNCHANGED <<k_cfg, k_nb, k_i, k_last, k_calls, k_leaked>>
       \/ /\ TokRaise
          /\ k_leaked' = (k_leaked \/ HasFunc(k_binding))
    /\ UNCHANGED k_binding
    /\ UNCHANGED frameTok

\* batch_postprocess on mini-batch k_i
TokBatchPostprocess ==
    /\ k_pc = "post"
    /\ IF UnbindsInPostprocess(k_cfg) /\ ~HasFunc(k_binding)
       THEN /\ TokRaise                       \* AttributeError: no attribute func
            /\ UNCHANGED <<k_binding, k_leaked>>
       ELSE /\ k_binding' = IF UnbindsInPostprocess(k_cfg) THEN k_binding.func
                            ELSE k_binding
            /\ k_i' = k_i + 1
            /\ k_pc' = IF k_i < k_nb THEN "pre" ELSE "finish"
            /\ UNCHANGED <<k_cfg, k_nb, k_last, k_calls, k_leaked>>
    /\ UNCHANGED frameTok

\* __call__ after its loop
TokCallFinish ==
    /\ k_pc = "finish"
    /\ k_pc' = "idle"
    /\ k_last' = "returned"
    /\ UNCHANGED <<k_cfg, k_binding, k_nb, k_i, k_calls, k_leaked>>
    /\ UNCHANGED frameTok

NextTok ==
    \/ TokCallStart
    \/ TokBatchPreprocess
    \/ TokEvaluateBatch
    \/ TokBatchPostprocess
    \/ TokCallFinish

SpecTok == InitTok /\ [][NextTok]_vars

(***************************************************************************)
(* The NoiseGrad and NoiseGrad++ explanation functions for text            *)
(* classifiers: _explain_noise_grad and _explain_noise_grad_plus_plus      *)
(* (TensorFlow) and torch_explain_noise_grad (PyTorch).  The weights of a  *)
(* model are a list of numbers.  The baseline explain function returns or  *)
(* raises; no exception is caught.                                         *)
(***************************************************************************)
NoiseFunctions == {"tf_noise_grad", "tf_noise_grad_plus_plus", "torch_noise_grad"}

\* apply_noise on every entry of the weights, in round r of the weight noise
NoisyWeights(w, r) == [k \in DOMAIN w |-> 10 * w[k] + r + 1]

\* what the function keeps as the original weights.  The TensorFlow getter
\* returns new arrays (get_weights); the PyTorch getter returns state_dict(),
\* whose tensors share their storage with the model's parameters, and
\* dict.copy() copies the dict, not the tensors.
TakeOriginalWeights(fn, w) ==
    IF fn = "torch_noise_grad" THEN [alias |-> TRUE, val |-> <<>>]
    ELSE [alias |-> FALSE, val |-> w]

\* the value of the kept original weights when they are read
ReadOriginalWeights(og, w) == IF og.alias THEN w ELSE og.val

\* the index of explanations_array.write(_n + _m * m, explanation)
WriteIndex(nn, mm, n_rounds, m_rounds) ==
    nn + mm * m_rounds

\* the size of the TensorArray
ArraySize(fn, n_rounds, m_rounds) ==
    IF fn = "tf_noise_grad_plus_plus" THEN n_rounds * m_rounds ELSE n_rounds

\* explanations_array.write(index, ...): out of range it raises; on a slot
\* already written it raises (graph mode) or overwrites (eager mode)
WriteOutcomes(written, index, size) ==
    IF index \notin 0..(size - 1) THEN {"raised"}
    ELSE IF index \in Range(written) THEN {"raised", "written"}
    ELSE {"written"}

\* explanations_array.stack(): with a slot never written it raises (graph
\* mode) or reads zeros (eager mode)
StackOutcomes(written, size) ==
    IF \A k \in 0..(size - 1) : k \in Range(written) THEN {"stacked"}
    ELSE {"raised", "stacked"}

InitNoise ==
    /\ IdleRand
    /\ IdleText
    /\ IdleBatch
    /\ IdleRIS
    /\ IdleAgg
    /\ IdleInvAttr
    /\ IdleInverse
    /\ IdleAsserts
    /\ IdleTextMetric
    /\ IdleTok
    /\ IdleFlip
    /\ ng_fn \in NoiseFunctions
    /\ ng_n \in 1..MaxRounds
    /\ ng_m \in IF ng_fn = "tf_noise_grad_plus_plus" THEN 1..MaxRounds ELSE {1}
    /\ ng_w0 \in {<<1, 2>>, <<3>>}
    /\ ng_w = ng_w0
    /\ ng_og = <<>>
    /\ ng_pc = "start"
    /\ ng_it = 0
    /\ ng_jt = 0
    /\ ng_writes = <<>>
    /\ ng_out = "running"

cfgNoise == <<ng_fn, ng_n, ng_m, ng_w0>>

\* an exception leaves the function
NoiseRaise ==
    /\ ng_pc' = "done"
    /\ ng_out' = "raised"

\* the function up to its loop: the original weights are kept
NoiseStart ==
    /\ ng_pc = "start"
    /\ ng_og' = TakeOriginalWeights(ng_fn, ng_w)
    /\ ng_pc' = "outer"
    /\ UNCHANGED <<cfgNoise, ng_w, ng_it, ng_jt, ng_writes, ng_out>>
    /\ UNCHANGED frameNoise

\* one round of weight noise: the TensorFlow functions give the model the
\* noisy weights; NoiseGrad for PyTorch perturbs a module of its own
NoiseWeights ==
    /\ ng_pc = "outer"
    /\ ng_it < ng_n
    /\ ng_w' = IF ng_fn = "torch_noise_grad" THEN ng_w
               ELSE NoisyWeights(ReadOriginalWeights(ng_og, ng_w), ng_it)
    /\ ng_jt' = 0
    /\ ng_pc' = "explain"
    /\ UNCHANGED <<cfgNoise, ng_og, ng_it, ng_writes, ng_out>>
    /\ UNCHANGED frameNoise

\* one call of the baseline explain function and the write of its result;
\* the PyTorch explanation_fn first loads the noisy module's state_dict
\* into the model
NoiseExplain ==
    /\ ng_pc = "explain"
    /\ ng_w' = IF ng_fn = "torch_noise_grad" THEN NoisyWeights(ng_w0, ng_it) ELSE ng_w
    /\ \/ /\ NoiseRaise                          \* explain_fn raises
          /\ UNCHANGED <<ng_it, ng_jt, ng_writes>>
       \/ /\ ng_fn = "torch_noise_grad"
          /\ ng_it' = ng_it + 1
          /\ ng_pc' = "outer"
          /\ UNCHANGED <<ng_jt, ng_writes, ng_out>>
       \/ /\ ng_fn # "torch_noise_grad"
          /\ LET index == IF ng_fn = "tf_noise_grad" THEN ng_it
                          ELSE WriteIndex(ng_it, ng_jt, ng_n, ng_m)
             IN  /\ ng_writes' = Append(ng_writes, index)
                 /\ \E out \in WriteOutcomes(ng_writes, index,
                                             ArraySize(ng_fn, ng_n, ng_m)) :
                       IF out = "raised"
                       THEN /\ NoiseRaise
                            /\ UNCHANGED <<ng_it, ng_jt>>
                       ELSE /\ ng_jt' = IF ng_jt + 1 < ng_m THEN ng_jt + 1 ELSE 0
                            /\ ng_it' = IF ng_jt + 1 < ng_m THEN ng_it ELSE ng_it + 1
                            /\ ng_pc' = IF ng_jt + 1 < ng_m THEN "explain" ELSE "outer"
                            /\ UNCHANGED ng_out
    /\ UNCHANGED <<cfgNoise, ng_og>>
    /\ UNCHANGED frameNoise

\* after the loop: the mean over the explanations, then the original
\* weights are given back to the model and the function returns
NoiseFinish ==
    /\ ng_pc = "outer"
    /\ ng_it = ng_n
    /\ \E out \in IF ng_fn = "torch_noise_grad" THEN {"stacked"}
                  ELSE StackOutcomes(ng_writes, ArraySize(ng_fn, ng_n, ng_m)) :
          IF out = "raised"
          THEN /\ NoiseRaise
               /\ UNCHANGED ng_w
          ELSE /\ ng_w' = ReadOriginalWeights(ng_og, ng_w)
               /\ ng_pc' = "done"
               /\ ng_out' = "returned"
    /\ UNCHANGED <<cfgNoise, ng_og, ng_it, ng_jt, ng_writes>>
    /\ UNCHANGED frameNoise

NextNoise ==
    \/ NoiseStart
    \/ NoiseWeights
    \/ NoiseExplain
    \/ NoiseFinish

SpecNoise == InitNoise /\ [][NextNoise]_vars

(***************************************************************************)
(* TokenFlipping._eval_pruning and TokenFlipping._eval_activation.  A      *)
(* batch holds the token ids of every instance, all of one length; the     *)
(* model gives every instance one logit per class 0..MaxClass, a function  *)
(* of the instance's token ids as they are when the model is called.       *)
(***************************************************************************)
\* model.tokenizer.token_id(self.mask_token)
MaskTokenId == 0

\* get_input_ids(x_batch, model): the token ids of instance b
InputIds(b, num_tokens) == [t \in 1..num_tokens |-> 10 * b + t]

\* model(embeddings, **predict_kwargs): one row of logits per instance
FlipLogits(ids) ==
    [b \in 1..Len(ids) |-> [c \in 1..(MaxClass + 1) |-> 100 * (c - 1) + SumSeq(ids[b])]]

\* np.take(logits, y_batch): no axis is given, so y_batch indexes the
\* flattened logits
NpTake(logits, indices) ==
    [b \in 1..Len(indices) |-> Concat(logits)[indices[b] + 1]]

\* np.argsort(a[1]) for pruning, np.argsort(a[1])[::-1] for activation
MaskOrders(task, a_batch) ==
    IF task = "pruning" THEN ArgSortsAxis1(a_batch)
    ELSE {[b \in 1..Len(a_batch) |-> Reversed(p[b])] : p \in ArgSortsAxis1(a_batch)}

\* the inner loop of step i: every instance has one more token masked
\* (pruning) or one more token given back (activation)
FlipTokens(task, ids, order, i) ==
    [b \in 1..Len(ids) |->
        [ids[b] EXCEPT ![order[b][i]] =
            IF task = "pruning" THEN MaskTokenId ELSE InputIds(b, Len(ids[b]))[order[b][i]]]]

InitFlip ==
    /\ IdleRand
    /\ IdleText
    /\ IdleBatch
    /\ IdleRIS
    /\ IdleAgg
    /\ IdleInvAttr
    /\ IdleInverse
    /\ IdleAsserts
    /\ IdleTextMetric
    /\ IdleTok
    /\ IdleNoise
    /\ f_task \in {"pruning", "activation"}
    /\ \E n \in 1..MaxInst, num_tokens \in 1..MaxTokens :
          /\ f_y \in [1..n -> 0..MaxClass]
          /\ f_a \in [1..n -> [1..num_tokens -> {0, 1}]]
    /\ f_ids = <<>>
    /\ f_order = <<>>
    /\ f_i = 0
    /\ f_logits = <<>>
    /\ f_scores = <<>>
    /\ f_pc = "start"

cfgFlip == <<f_task, f_y, f_a>>

\* the function up to its loop over the steps
FlipStart ==
    /\ f_pc = "start"
    /\ f_order' \in MaskOrders(f_task, f_a)
    /\ f_ids' = [b \in 1..Len(f_a) |->
                    IF f_task = "pruning" THEN InputIds(b, Len(f_a[1]))
                    ELSE [t \in 1..Len(f_a[1]) |-> MaskTokenId]]
    /\ f_pc' = "loop"
    /\ UNCHANGED <<cfgFlip, f_i, f_logits, f_scores>>
    /\ UNCHANGED frameFlip

\* one step: the tokens are flipped, the model is called, scores[i] is set
FlipStep ==
    /\ f_pc = "loop"
    /\ f_i < Len(f_a[1])
    /\ LET ids    == FlipTokens(f_task, f_ids, f_order, f_i + 1)
           logits == FlipLogits(ids)
       IN  /\ f_ids' = ids
           /\ f_logits' = logits
           /\ f_scores' = Append(f_scores, NpTake(logits, f_y))
    /\ f_i' = f_i + 1
    /\ UNCHANGED <<cfgFlip, f_order, f_pc>>
    /\ UNCHANGED frameFlip

\* return scores
FlipReturn ==
    /\ f_pc = "loop"
    /\ f_i = Len(f_a[1])
    /\ f_pc' = "returned"
    /\ UNCHANGED <<cfgFlip, f_ids, f_order, f_i, f_logits, f_scores>>
    /\ UNCHANGED frameFlip

NextFlip ==
    \/ FlipStart
    \/ FlipStep
    \/ FlipReturn

SpecFlip == InitFlip /\ [][NextFlip]_vars

-----------------------------------------------------------------------------
(* Claims about the text-classifier layer generators.                      *)

\* C3: while and after a text-classifier layer generator is iterated, the
\* weights of the classifier it was called on are never changed, and every
\* named layer is yielded together with a clone in which the randomisation
\* of that layer is visible.
C3_CloneCarriesRandomisation ==
    /\ t_heap[Caller] = t_w0
    /\ \A k \in 1..Len(t_yields) :
          t_yields[k].clone[t_yields[k].name] # t_w0[t_yields[k].name]
    /\ t_gen.state \in {"exhausted", "raised"} =>
          {t_yields[k].name : k \in 1..Len(t_yields)} = {m \in Modules : t_has[m]}

-----------------------------------------------------------------------------
(* Claims about the randomisation experiment.                              *)

\* The randomisable layers L1..Ln in definition order, stated without the
\* generator's own list construction.
ResetSet == {m \in Modules : has_reset[m]}
NthLayer(j) == CHOOSE m \in ResetSet : Cardinality({x \in ResetSet : x <= m}) = j

\* C1: once eMPRT.__call__ has exited, by returning or by an exception of
\* quality_func or explain_func at any iteration, every parameter of the
\* caller's model equals its value before the call, for every layer_order.
C1_CallerModelRestored ==
    pc \in {"returned", "raised"} => heap[Caller] = TrainedWeights

\* quality_func raised on its 3rd call, inside the layer loop, while the
\* yielded model had randomised layers.
C1_Witness ==
    /\ pc = "raised"
    /\ q_calls = 3
    /\ gen.state = "suspended"
    /\ Randomised(heap, gen.rlm) # {}
    /\ heap[Caller] = TrainedWeights

\* C2: the generator yields exactly n pairs, and at the k-th yield the set of
\* layers that differ from the originals is {L1..Lk} (bottom_up),
\* {Ln..L(n-k+1)} (top_down), exactly {Lk} (independent).
C2_OrderSemantics ==
    LET n == Cardinality(ResetSet)
    IN  /\ Len(yields) <= n
        /\ gen.state = "exhausted" => Len(yields) = n
        /\ \A k \in 1..Len(yields) :
              /\ layer_order = "bottom_up" =>
                    /\ yields[k].name = NthLayer(k)
                    /\ yields[k].rand = {NthLayer(j) : j \in 1..k}
              /\ layer_order = "top_down" =>
                    /\ yields[k].name = NthLayer(n + 1 - k)
                    /\ yields[k].rand = {NthLayer(j) : j \in (n - k + 1)..n}
              /\ layer_order = "independent" =>
                    /\ yields[k].name = NthLayer(k)
                    /\ yields[k].rand = {NthLayer(k)}

\* A top_down walk over a model whose modules are all randomisable came to
\* its end: the first yield randomised the last layer only, the last all.
C2_Witness ==
    /\ layer_order = "top_down"
    /\ gen.state = "exhausted"
    /\ Len(yields) = MaxModules
    /\ yields[1].rand = {MaxModules}
    /\ yields[Len(yields)].rand = Modules

\* The layer walk of the running call is over: the call is at its
\* post-processing, has returned, or was ended there by a failed assertion.
WalkDone == pc \in {"post", "returned"} \/ (pc = "raised" /\ err # "collaborator")

\* The keys of scores_expl_model_randomised, in insertion order.
KeysOf(d) == [i \in DOMAIN d |-> d[i].key]

\* "orig" followed by the names the generator yielded, in yield order.
OrigThenYielded == <<OrigKey>> \o [j \in DOMAIN yields |-> LayerKey(yields[j].name)]

\* C11 as stated: after a call with return_sensitivity_score false on a model
\* whose generator yields k layers, scores_expl_model_randomised has exactly
\* the k + 1 keys "orig", n1, ..., nk in that order, each with one score per
\* instance.
C11_OrigThenLayerKeys ==
    (~ret_sens /\ WalkDone) =>
        /\ KeysOf(scores_rand) = OrigThenYielded
        /\ \A i \in DOMAIN scores_rand : Len(scores_rand[i].scores) = n_inst

\* C11, amended: the same for a generator that yields at least one layer;
\* for a model without a randomisable layer the mapping stays empty, the
\* "orig" entry included.
C11_OrigThenLayerKeysIfAnyLayer ==
    (~ret_sens /\ WalkDone) =>
        /\ yields # <<>> => KeysOf(scores_rand) = OrigThenYielded
        /\ yields = <<>> => scores_rand = <<>>
        /\ \A i \in DOMAIN scores_rand : Len(scores_rand[i].scores) = n_inst

\* A call with layer_order "independent" on a model with two randomisable
\* layers and two instances has returned three entries.
C11_Witness ==
    /\ ~ret_sens
    /\ pc = "returned"
    /\ layer_order = "independent"
    /\ Len(yields) = 2
    /\ Len(scores_rand) = 3
    /\ n_inst = 2

\* C12: a returning call with return_sensitivity_score has recorded exactly
\* two score sets, "orig" and the last yielded layer scored on the final
\* state of the yielded model (one explanation of a yielded model in all),
\* and evaluation_scores[i] is final[i] / orig[i]; a call that ends its walk
\* with another number of score sets raises.
C12_SensitivityOfFinalState ==
    /\ (ret_sens /\ pc = "returned") =>
          /\ Len(scores_rand) = 2
          /\ KeysOf(scores_rand) = <<OrigKey, LayerKey(yields[Len(yields)].name)>>
          /\ scores_rand[2].scores =
                [i \in 1..n_inst |-> EvaluateInstance(Explain(heap[gen.rlm], i))]
          /\ q_calls = nr_samples + 2 * n_inst
          /\ evaluation_scores.type = "list"
          /\ evaluation_scores.val =
                [i \in 1..n_inst |-> <<scores_rand[2].scores[i], scores_rand[1].scores[i]>>]
    /\ (ret_sens /\ WalkDone /\ pc # "post" /\ Len(scores_rand) # 2) => pc = "raised"

\* A sensitivity call on a model with at least two randomisable layers and
\* two instances has returned; the layers before the last were skipped.
C12_Witness ==
    /\ ret_sens
    /\ pc = "returned"
    /\ n_layers >= 2
    /\ n_inst = 2
    /\ Len(scores_rand) = 2
    /\ \E i \in 1..n_inst : scores_rand[2].scores[i] # scores_rand[1].scores[i]

\* C13: with return_aggregate and without return_sample_quality no call
\* returns a value or appends to all_evaluation_scores, and a call that
\* reaches its post-processing is ended there by an exception.
C13_AggregateWithoutSampleQualityRaises ==
    /\ []((ret_agg /\ ~ret_sq) =>
            /\ pc # "returned"
            /\ ret_val = NoValue
            /\ all_evaluation_scores = <<>>)
    /\ [][(ret_agg /\ ~ret_sq /\ pc = "post") =>
            /\ pc' = "raised"
            /\ err' # "none"
            /\ all_evaluation_scores' = all_evaluation_scores]_vars

\* The second call of such an instance got through its layer walk and was
\* ended by the assertion on return_sample_quality.
C13_Witness ==
    /\ ret_agg
    /\ ~ret_sq
    /\ pc = "raised"
    /\ err = "aggregate without sample quality"
    /\ call_no = 2
    /\ Len(scores_rand) >= 2
    /\ all_evaluation_scores = <<>>

\* C14: with return_sample_quality a call whose collaborators do not fail
\* returns, and evaluation_scores holds for every instance the mean over the
\* layers of this call's scores_expl_model_randomised.
C14_SampleQualityMeans ==
    (ret_sq /\ pc \in {"returned", "raised"} /\ err # "collaborator") =>
        /\ pc = "returned"
        /\ evaluation_scores.type = "list"
        /\ evaluation_scores.val = RecomputeScoresPerSample(scores_rand)

\* C15: with the three post-processing flags off, the returned value is the
\* per-layer dictionary of the call that returned it.
C15_ReturnsCurrentDict ==
    (~ret_sq /\ ~ret_sens /\ ~ret_agg /\ pc = "returned") =>
        /\ ret_val.type = "dict"
        /\ ret_val.val = scores_rand

\* C16: the second of two returning calls on the same instance with the
\* same arguments records the same scores_expl_random and
\* scores_expl_model_randomised as the first.
C16_RepeatedCallIdentical ==
    Len(seen) = 2 =>
        /\ seen[2].random = seen[1].random
        /\ seen[2].randomised = seen[1].randomised

-----------------------------------------------------------------------------
(* Claims about BatchedMetric.__call__.                                    *)

LastOf(seq) == seq[Len(seq)]

\* The position in the caller's arrays of entry j of mini-batch b.
GlobalIndex(b, j) == (b - 1) * b_in.batch_size + j

\* C4: with return_aggregate false, a returning call gives exactly one score
\* per instance of x_batch, and score i was computed from instance i (and
\* from label i and attribution i where the caller passed them), whatever
\* the batch size.
C4_OneScorePerInstanceInOrder ==
    (b_last = "returned" /\ ~b_cfg.return_aggregate) =>
        LET r == LastOf(b_returned)
        IN  /\ Len(r) = Len(b_in.x)
            /\ \A i \in DOMAIN r :
                 /\ r[i][1] = b_in.x[i]
                 /\ b_in.y.some => r[i][2] = b_in.y.val[i]
                 /\ b_in.a.some => r[i][3] = b_in.a.val[i]

\* A call on three instances in mini-batches of two (a short last
\* mini-batch) has returned its unaggregated scores.
C4_Witness ==
    /\ b_last = "returned"
    /\ ~b_cfg.return_aggregate
    /\ Len(b_in.x) = 3
    /\ b_in.batch_size = 2
    /\ Len(LastOf(b_returned)) = 3

\* C8: a call whose caller-supplied a_batch fails the attribution assertions
\* raises during preprocessing, so evaluate_batch is never invoked on it.
C8_InvalidAttributionsRejected ==
    (b_in.a.some /\ ~AssertAttributionsPasses(b_in.x, b_in.a.val)) => b_evals = 0

\* C9: after batch_preprocess of a mini-batch, a missing y is the argmax of
\* the model's prediction, a missing a is explain_func's output normalised
\* and then made absolute as configured, and a supplied y or a is the
\* caller's slice, obtained without calling predict or explain_func.
C9_BatchPreprocessDefaults ==
    b_pc = "eval" =>
        \A j \in DOMAIN b_cur.x :
            LET x == b_cur.x[j]
                g == GlobalIndex(b_i, j)
                e == ExplainFunc(x, b_cur.y[j])
            IN  /\ x = b_in.x[g]
                /\ IF b_in.y.some
                   THEN b_cur.y[j] = b_in.y.val[g] /\ "predict" \notin Range(b_log)
                   ELSE b_cur.y[j] = ArgMax(Logits(x)) /\ "predict" \in Range(b_log)
                /\ IF b_in.a.some
                   THEN b_cur.a[j] = b_in.a.val[g] /\ "explain_func" \notin Range(b_log)
                   ELSE /\ "explain_func" \in Range(b_log)
                        /\ b_cur.a[j] =
                             CASE b_cfg.normalise /\ b_cfg.abs -> AbsVec(NormaliseFunc(e))
                               [] b_cfg.normalise /\ ~b_cfg.abs -> NormaliseFunc(e)
                               [] ~b_cfg.normalise /\ b_cfg.abs -> AbsVec(e)
                               [] OTHER -> e

\* The second mini-batch of a call without y_batch and a_batch has been
\* preprocessed by a metric that normalises and takes absolute values, and
\* the two orders of doing so differ on its explanation.
C9_Witness ==
    /\ b_pc = "eval"
    /\ b_i = 2
    /\ ~b_in.y.some
    /\ ~b_in.a.some
    /\ b_cfg.normalise
    /\ b_cfg.abs
    /\ \E j \in DOMAIN b_cur.x :
         LET e == ExplainFunc(b_cur.x[j], b_cur.y[j])
         IN  AbsVec(NormaliseFunc(e)) # NormaliseFunc(AbsVec(e))

\* C10: a step in which a call returns appends the returned value to
\* all_results and leaves the earlier entries as they were; every other
\* step, an abort by an exception included, leaves all_results unchanged.
C10_AllResultsHistory ==
    [][IF b_last = "running" /\ b_last' = "returned"
       THEN /\ Len(b_returned') = Len(b_returned) + 1
            /\ b_all_results' = Append(b_all_results, LastOf(b_returned'))
       ELSE b_all_results' = b_all_results]_vars

\* A call was aborted by an exception after two calls had returned, and
\* all_results holds exactly the two returned values.
C10_Witness ==
    /\ b_last = "raised"
    /\ Len(b_returned) = 2
    /\ b_all_results = b_returned

-----------------------------------------------------------------------------
(* Claims about the prediction-change guard and the aggregation over       *)
(* perturbation rounds.                                                    *)

\* The predicted class of instance i changed in round r.
PredictionChanged(r, i) ==
    ArgMax(GuardLogits(r_cfg.kind, r_x[i])) # ArgMax(GuardLogits(r_cfg.kind, r_xps[r][i]))

\* C5: with return_nan_when_prediction_changes set, the numeric
\* evaluate_batch holds NaN in ris_batch[r, i] for every finished round r and
\* every instance i whose predicted class changed in that round, and it
\* returns NaN for an instance whose predicted class changed in every round.
C5_NaNOnChangedPrediction ==
    (r_cfg.return_nan /\ r_cfg.kind = "numeric") =>
        /\ \A r \in DOMAIN r_xps : \A i \in DOMAIN r_x :
             PredictionChanged(r, i) => IsNaN(r_ris[r][i])
        /\ r_pc = "returned" =>
             \A i \in DOMAIN r_x :
                 (\A r \in 1..r_cfg.nr_samples : PredictionChanged(r, i))
                     => IsNaN(r_result[i])

\* Two rounds have run on a numeric model: one instance changed its
\* predicted class in both and got NaN, another got a number.
C5_Witness ==
    /\ r_pc = "returned"
    /\ r_cfg.return_nan
    /\ r_cfg.kind = "numeric"
    /\ r_cfg.nr_samples = 2
    /\ \E i \in DOMAIN r_x :
         /\ \A r \in 1..2 : PredictionChanged(r, i)
         /\ IsNaN(r_result[i])
    /\ \E j \in DOMAIN r_x : ~IsNaN(r_result[j])

\* C6: changed_prediction_indices returns nothing when
\* return_nan_when_prediction_changes is false, for every kind of model;
\* otherwise it returns, once each, exactly the 0-based positions at which
\* the argmax of the model's output differs between x_batch and x_perturbed.
C6_ChangedIndicesExact ==
    \A r \in DOMAIN r_changed :
        IF ~r_cfg.return_nan
        THEN r_changed[r] = <<>>
        ELSE /\ Range(r_changed[r]) =
                  {i - 1 : i \in {k \in DOMAIN r_x : PredictionChanged(r, k)}}
             /\ Len(r_changed[r]) = Cardinality(Range(r_changed[r]))

\* The guard of a text classifier returned one position of a batch in which
\* another instance's logits changed without changing its predicted class.
C6_Witness ==
    /\ r_cfg.return_nan
    /\ r_cfg.kind = "text_latent"
    /\ \E r \in DOMAIN r_changed :
         /\ Len(r_changed[r]) = 1
         /\ \E k \in DOMAIN r_x :
              /\ ~PredictionChanged(r, k)
              /\ GuardLogits(r_cfg.kind, r_x[k]) # GuardLogits(r_cfg.kind, r_xps[r][k])

\* The rounds of instance i whose score is a number.
NumberRounds(i) == {r \in DOMAIN g_scores : ~IsNaN(g_scores[r][i])}

\* C7 as stated: whenever the round scores of instance i contain a NaN, the
\* aggregated score of instance i is NaN.
C7_AnyNaNPropagates ==
    g_pc = "returned" =>
        \A i \in DOMAIN g_result :
            (\E r \in DOMAIN g_scores : IsNaN(g_scores[r][i])) => g_result[i][1] = 1

\* C7, amended: the aggregated score of instance i is NaN exactly when every
\* round score of instance i is NaN; otherwise the NaN rounds are left out
\* and it is the mean of the round scores that are numbers.
C7_NaNOnlyWhenAllRoundsNaN ==
    g_pc = "returned" =>
        /\ DOMAIN g_result = DOMAIN g_scores[1]
        /\ \A i \in DOMAIN g_result :
             IF NumberRounds(i) = {}
             THEN g_result[i][1] = 1
             ELSE /\ g_result[i][1] = 0
                  /\ g_result[i][3] = Cardinality(NumberRounds(i))
                  /\ g_result[i][2] =
                       SumSeq([r \in DOMAIN g_scores |->
                                  IF r \in NumberRounds(i) THEN g_scores[r][i][2] ELSE 0])

\* Two rounds were aggregated: one instance had a NaN round and a number
\* round, another had NaN in both.
C7_Witness ==
    /\ g_pc = "returned"
    /\ Len(g_scores) = 2
    /\ \E i \in DOMAIN g_result :
         /\ Cardinality(NumberRounds(i)) = 1
         /\ g_result[i][1] = 0
    /\ \E j \in DOMAIN g_result :
         /\ NumberRounds(j) = {}
         /\ g_result[j][1] = 1

-----------------------------------------------------------------------------
(***************************************************************************)
(* Claims about the inverse estimation.                                    *)
(***************************************************************************)
UniqueRow(row) == \A p, q \in 1..Len(row) : p # q => row[p] # row[q]

CountIn(row, v) == Cardinality({k \in 1..Len(row) : row[k] = v})

SameMultiset(r1, r2) ==
    /\ Len(r1) = Len(r2)
    /\ \A v \in Range(r1) \cup Range(r2) : CountIn(r1, v) = CountIn(r2, v)

\* a larger value of r1 never sits where r2 has the smaller one, and with
\* unique values the order of every pair of positions is reversed
RankReversed(r1, r2) ==
    \A p, q \in 1..Len(r1) :
        r1[p] < r1[q] =>
            /\ r2[p] >= r2[q]
            /\ UniqueRow(r1) => r2[p] > r2[q]

\* C19: get_inverse_attributions keeps the shape of its argument; applied
\* twice, sign-flip gives back the argument, and so does value-swap on an
\* array whose instances hold unique values; one value-swap keeps the
\* multiset of values of every instance and reverses their rank order.
C19_InverseIsInvolution ==
    \A k \in 2..Len(v_a) :
        LET a   == v_a[k - 1]
            inv == v_a[k]
            ra  == Reshape2D(a)
            ri  == Reshape2D(inv)
        IN  /\ inv.shape = a.shape
            /\ Len(inv.data) = Len(a.data)
            /\ v_method = "value-swap" =>
                  \A i \in 1..Len(ra) :
                      /\ SameMultiset(ra[i], ri[i])
                      /\ RankReversed(ra[i], ri[i])
            /\ (k >= 3 /\ v_method = "sign-flip") => inv = v_a[k - 2]
            /\ ( /\ k >= 3
                 /\ v_method = "value-swap"
                 /\ \A i \in 1..Len(ra) : UniqueRow(ra[i]) ) => inv = v_a[k - 2]

C19_Witness ==
    /\ v_method = "value-swap"
    /\ Len(v_a) = 3
    /\ v_a[1].shape = <<2, MaxAttrLen, 1>>
    /\ \A i \in 1..2 : UniqueRow(Reshape2D(v_a[1])[i])
    /\ v_a[2] # v_a[1]
    /\ Reshape2D(v_a[2])[1] # Reversed(Reshape2D(v_a[1])[1])
    /\ v_a[3] = v_a[1]

Constructed == ie_pc \notin {"none", "new", "construct_raised"}

\* C17: after a successful construction the wrapped metric has
\* return_aggregate = False, whatever it was when passed in, and abs = False;
\* the construction fails when the wrapped metric has abs = True.
C17_WrappedMetricConfigured ==
    /\ Constructed =>
          /\ ie_metric.return_aggregate = FALSE
          /\ ie_metric.abs = FALSE
    /\ (ie_pc # "none" /\ ie_metric0.abs) => ~Constructed
    /\ (ie_pc = "construct_raised" /\ ie_err = "AssertionError: abs") => ie_metric0.abs

C17_Witness ==
    /\ ie_pc = "constructed"
    /\ ie_metric0.return_aggregate
    /\ ~ie_metric.return_aggregate

\* C18: a construction with return_mean_per_sample and return_auc_per_sample
\* both true raises in the constructor: no instance results, the wrapped
\* metric is left as passed in and nothing is evaluated.
C18_BothReturnFlagsRaise ==
    (ie_pc # "none" /\ ie_args.return_mean_per_sample /\ ie_args.return_auc_per_sample) =>
        /\ ~Constructed
        /\ ie_metric = ie_metric0
        /\ ie_mcalls = 0
        /\ ie_pc = "construct_raised" => ie_err = "AssertionError: both return flags"

C18_Witness ==
    /\ ie_pc = "construct_raised"
    /\ ie_args.return_mean_per_sample
    /\ ie_args.return_auc_per_sample
    /\ ie_args.inverse_method = "other"
    /\ ie_metric0.abs

\* C20: evaluate_batch fails when the wrapped metric gives a number of scores
\* other than the number of instances; otherwise it returns one value per
\* instance computed from scores_ori - scores_inv: the mean over the steps
\* with return_mean_per_sample, the AUC over the steps with
\* return_auc_per_sample.
C20_OneValuePerInstance ==
    /\ (ie_pc \in {"scored_ori", "scored_inv", "returned"}) =>
          Len(ie_scores_ori) = ie_in.n
    /\ ie_pc = "returned" =>
          LET inv_scores == ScoreDifference(ie_scores_ori, ie_scores_inv)
          IN  /\ ie_result.type = "list"
              /\ Len(ie_result.val) = ie_in.n
              /\ ie_args.return_mean_per_sample =>
                    \A i \in 1..ie_in.n :
                        ie_result.val[i] = <<SumSeq(inv_scores[i]), Len(inv_scores[i])>>
              /\ ie_args.return_auc_per_sample =>
                    \A i \in 1..ie_in.n : ie_result.val[i] = CalculateAuc(inv_scores[i])

-----------------------------------------------------------------------------
(***************************************************************************)
(* Claims about the assertions on attributions and segmentations.          *)
(***************************************************************************)
IsLeadingOrTrailing(sub, full) ==
    \E k \in 0..Len(full) :
        \/ sub = SubSeq(full, 1, k)
        \/ sub = SubSeq(full, Len(full) - k + 1, Len(full))

Constant(data) == \A j, k \in DOMAIN data : data[j] = data[k]

MixedSign(data) ==
    /\ \E k \in DOMAIN data : data[k] < 0
    /\ \E k \in DOMAIN data : data[k] > 0

\* C21: assert_attributions raises for an a_batch that is all zeros, all
\* ones, otherwise constant, entirely negative, or whose per-instance shape
\* is neither a leading nor a trailing part of x_batch's per-instance shape;
\* it passes for every ndarray with as many samples as x_batch, such a
\* shape, two distinct values or more and values of both signs.
C21_AssertAttributions ==
    (as_fn = "assert_attributions" /\ as_out \notin {"none", "pending"}) =>
        /\ ( \/ Constant(as_arg.data)
             \/ \A k \in DOMAIN as_arg.data : as_arg.data[k] < 0
             \/ ~IsLeadingOrTrailing(Tail(as_arg.shape), Tail(as_x)) )
              => as_out # "passed"
        /\ ( /\ as_arg.type = "ndarray"
             /\ as_arg.shape[1] = as_x[1]
             /\ IsLeadingOrTrailing(Tail(as_arg.shape), Tail(as_x))
             /\ ~Constant(as_arg.data)
             /\ MixedSign(as_arg.data) )
              => as_out = "passed"

C21_Witness ==
    /\ as_fn = "assert_attributions"
    /\ as_out = "all negative"
    /\ as_arg.shape = <<2, 2>>
    /\ as_x = <<2, 2, 1>>
    /\ ~Constant(as_arg.data)

\* C22: assert_segmentations accepts a mask only if it has a non-zero
\* element and every element is 0 or 1 (or a boolean): an all-zero mask is
\* rejected and so is a mask with any other value.
C22_AssertSegmentations ==
    (as_fn = "assert_segmentations" /\ as_out = "passed") =>
        /\ \E k \in DOMAIN as_arg.data : as_arg.data[k] # 0
        /\ \A k \in DOMAIN as_arg.data : as_arg.data[k] \in {0, 1}

-----------------------------------------------------------------------------
(***************************************************************************)
(* Claims about TextClassificationMetric.__call__.                         *)
(***************************************************************************)
\* C23: __call__ returns a flat array with one score per input text, in
\* input order, for every batch_size >= 1, also when len(x_batch) is no
\* multiple of batch_size and the last mini-batch is shorter.
C23_OneScorePerText ==
    tm_pc \in {"returned", "raised"} =>
        /\ tm_pc = "returned"
        /\ tm_result.type = "array"
        /\ Len(tm_result.val) = Len(tm_in.x)
        /\ \A g \in 1..Len(tm_in.x) :
              LET y == IF tm_in.y.some THEN tm_in.y.val[g] ELSE tm_in.x[g] % 2
                  a == IF tm_in.a.some THEN tm_in.a.val[g] ELSE <<tm_in.x[g], y>>
              IN  tm_result.val[g] = 100 * tm_in.x[g] + 10 * y + a[2]

-----------------------------------------------------------------------------
(***************************************************************************)
(* Claims about the order of the steps of BatchedMetric.__call__.          *)
(***************************************************************************)
IsPrefix(s, t) == Len(s) <= Len(t) /\ SubSeq(t, 1, Len(s)) = s

RECURSIVE LoopSteps(_)
LoopSteps(nb) ==
    IF nb = 0 THEN <<>>
    ELSE LoopSteps(nb - 1)
         \o <<<<"batch_preprocess", nb>>, <<"evaluate_batch", nb>>,
              <<"batch_postprocess", nb>>>>

\* the steps of a returning call over nb mini-batches
ExpectedSteps(nb, aggregate) ==
    <<<<"general_preprocess", 0>>>>
    \o LoopSteps(nb)
    \o <<<<"custom_postprocess", 0>>>>
    \o (IF aggregate THEN <<<<"aggregate_func", 0>>>> ELSE <<>>)
    \o <<<<"append", 0>>, <<"return", 0>>>>

\* C24: in one call general_preprocess runs once and first; for every
\* mini-batch in order batch_preprocess, evaluate_batch and
\* batch_postprocess run once each, in that order, before the next
\* mini-batch starts; custom_postprocess runs once after the last
\* mini-batch, then the optional aggregate_func, then the append to
\* all_results, then the return.
C24_StepOrder ==
    b_last \in {"running", "returned", "raised"} =>
        LET expected == ExpectedSteps(Len(b_data.x_batch), b_cfg.return_aggregate)
        IN  /\ b_trace # <<>>
            /\ IsPrefix(b_trace, expected)
            /\ b_last = "returned" => b_trace = expected
            /\ b_last = "running" => b_trace # expected

C24_Witness ==
    /\ b_last = "returned"
    /\ Len(b_data.x_batch) = 2
    /\ b_cfg.return_aggregate
    /\ Len(b_trace) = 11

-----------------------------------------------------------------------------
(***************************************************************************)
(* Claims about the rebinding of the tokenizer's batch_encode.             *)
(***************************************************************************)
TextMetricWithPlainTextPerturbation ==
    k_pc # "none" /\ k_cfg.nlp /\ k_cfg.plain_text /\ k_cfg.str_input

-----------------------------------------------------------------------------
(***************************************************************************)
(* Claims about the NoiseGrad explanation functions.                       *)
(***************************************************************************)
\* C26: NoiseGrad and NoiseGrad++ for text classifiers leave the model's
\* weights as they were before the call on every exit path, when the
\* function returns and when the baseline explain function raises.
C26_WeightsRestored ==
    ng_out \in {"returned", "raised"} => ng_w = ng_w0

\* C29: in the TensorFlow NoiseGrad++ the n * m explanations are written to
\* n * m pairwise distinct indices within [0, n * m), for all n >= 1 and
\* m >= 1: no slot is left unwritten, overwritten or addressed out of bounds.
C29_WriteIndicesDistinct ==
    ng_fn = "tf_noise_grad_plus_plus" =>
        /\ \A k \in DOMAIN ng_writes : ng_writes[k] \in 0..(ng_n * ng_m - 1)
        /\ \A j, k \in DOMAIN ng_writes : j # k => ng_writes[j] # ng_writes[k]
        /\ ng_out = "returned" => Range(ng_writes) = 0..(ng_n * ng_m - 1)

-----------------------------------------------------------------------------
(***************************************************************************)
(* Claims about the model objects get_random_layer_generator yields.       *)
(***************************************************************************)
\* C28: every iteration of PyTorchModel.get_random_layer_generator yields
\* one and the same model object, so the next yield changes the parameters
\* shown through an earlier reference: in "independent" order the reference
\* of iteration k no longer has layer k randomised once iteration k+1 is
\* yielded; in the cumulative orders it also has layer k+1 randomised.
C28_YieldsShareOneModel ==
    \A k \in 1..(Len(yields) - 1) :
        LET shown == Randomised(heap, yields[k].model)
        IN  /\ yields[k].model = yields[k + 1].model
            /\ shown # yields[k].rand
            /\ layer_order = "independent" => yields[k].name \notin shown
            /\ layer_order # "independent" =>
                  {yields[k].name, yields[k + 1].name} \subseteq shown

\* An independent walk yielded a second time: the first reference was
\* yielded with its own layer randomised and now shows the second layer.
C28_Witness ==
    /\ layer_order = "independent"
    /\ Len(yields) = 2
    /\ gen.state = "suspended"
    /\ yields[1].rand = {yields[1].name}
    /\ Randomised(heap, yields[1].model) = {yields[2].name}

-----------------------------------------------------------------------------
-----------------------------------------------------------------------------
(***************************************************************************)
(* Claims about TokenFlipping.                                             *)
(***************************************************************************)
\* C30: for the tasks "pruning" and "activation" the score of instance b at
\* step i is the logit the model gave for b's own masked input at class
\* y_batch[b], for every instance b of the batch and not only the first.
C30_OwnLogitPerInstance ==
    f_i >= 1 =>
        \A b \in 1..Len(f_y) : f_scores[f_i][b] = f_logits[b][f_y[b] + 1]

====
